---- MODULE Spec2Model ----
(***************************************************************************)
(* Email-based top-up confirmation engine of Northapp.                     *)
(*                                                                         *)
(* The store is the SQLite database of db.js (better-sqlite3, synchronous  *)
(* statements).  confirmTopupFromEmail is modelled one database statement  *)
(* (or clock read) per step, so that two operating-system processes that   *)
(* share the database file interleave exactly where they can.  Text is a   *)
(* sequence of one-character strings; timestamps are milliseconds.         *)
(***************************************************************************)
EXTENDS Integers, Sequences, FiniteSets, TLC

(***************************************************************************)
(* Bounds of the model                                                     *)
(***************************************************************************)
\* most calls of confirmTopupFromEmail in one behaviour
MaxCalls == 2
\* POST /api/topups is taken while the topups table holds fewer rows
MaxTopups == 1
\* granularity of the sampled clock instants, in milliseconds
StepMs == 500
\* sampled instants after the first possible expiry: up to +MaxLate*StepMs
MaxLate == 1
\* scan passes of the poller
MaxPasses == 2
\* longest text a varied note may grow to, in characters
MaxText == 4
\* rows of the topups table where several requests are made
MaxRows == 2

\* the processes that share the database file (the engine and, say, a
\* second instance during a deploy)
Procs == {1, 2}
Users == {1, 2}

\* SQL NULL and a present value of a nullable column
NULL == <<>>
Some(v) == <<v>>

(***************************************************************************)
(* Text helpers                                                            *)
(***************************************************************************)
Whitespace == {" ", "\t", "\n"}

\* String.prototype.toLowerCase on one character
ToLowerChar(c) ==
    CASE c = "A" -> "a"
      [] c = "B" -> "b"
      [] c = "C" -> "c"
      [] c = "O" -> "o"
      [] c = "P" -> "p"
      [] c = "T" -> "t"
      [] c = "U" -> "u"
      [] c = "X" -> "x"
      [] OTHER -> c

RECURSIVE ToLowerCase(_)
ToLowerCase(s) ==
    IF s = <<>> THEN <<>>
    ELSE <<ToLowerChar(Head(s))>> \o ToLowerCase(Tail(s))

\* whitespace is left as it is (mutant)
CollapseWhitespace_Keeps(s) == s

\* .replace(/\s+/g, " "): every maximal run of whitespace becomes one space
RECURSIVE CollapseWhitespace(_)
CollapseWhitespace(s) ==
    IF s = <<>> THEN <<>>
    ELSE IF Head(s) \in Whitespace
         THEN IF Len(s) > 1 /\ s[2] \in Whitespace
              THEN CollapseWhitespace(Tail(s))
              ELSE <<" ">> \o CollapseWhitespace(Tail(s))
         ELSE <<Head(s)>> \o CollapseWhitespace(Tail(s))

RECURSIVE TrimStart(_)
TrimStart(s) ==
    IF s # <<>> /\ Head(s) \in Whitespace THEN TrimStart(Tail(s)) ELSE s

RECURSIVE TrimEnd(_)
TrimEnd(s) ==
    IF s # <<>> /\ s[Len(s)] \in Whitespace
    THEN TrimEnd(SubSeq(s, 1, Len(s) - 1))
    ELSE s

\* String.prototype.trim
Trim(s) == TrimEnd(TrimStart(s))

\* normalizePhrase: "" for falsy text, else lower-case, collapse, trim
normalizePhrase(text) ==
    IF text = <<>> THEN <<>>
    ELSE Trim(CollapseWhitespace(ToLowerCase(text)))

(***************************************************************************)
(* Numbers: parseFloat and Math.floor                                      *)
(***************************************************************************)
Digits == {"0", "1", "2", "3", "4", "5", "6", "7", "8", "9"}

DigitVal(c) ==
    CASE c = "0" -> 0 [] c = "1" -> 1 [] c = "2" -> 2 [] c = "3" -> 3
      [] c = "4" -> 4 [] c = "5" -> 5 [] c = "6" -> 6 [] c = "7" -> 7
      [] c = "8" -> 8 [] c = "9" -> 9

\* length of the longest prefix of s made of digits
RECURSIVE DigitRun(_)
DigitRun(s) ==
    IF s # <<>> /\ Head(s) \in Digits THEN 1 + DigitRun(Tail(s)) ELSE 0

\* value of a digit string read as a decimal integer
RECURSIVE DigitsValue(_)
DigitsValue(s) ==
    IF s = <<>> THEN 0
    ELSE 10 * DigitsValue(SubSeq(s, 1, Len(s) - 1)) + DigitVal(s[Len(s)])

RECURSIVE Pow10(_)
Pow10(k) == IF k = 0 THEN 1 ELSE 10 * Pow10(k - 1)

NaN == [nan |-> TRUE, num |-> 0, den |-> 1]

\* parseFloat: skip leading white space, optional sign, the longest prefix
\* of the form digits [. digits] or . digits; a number is num/den.
\* (Exponents and "Infinity" are outside the sampled alphabet.)
parseFloat(str) ==
    LET s0   == TrimStart(str)
        neg  == s0 # <<>> /\ Head(s0) = "-"
        s1   == IF s0 # <<>> /\ Head(s0) \in {"-", "+"} THEN Tail(s0) ELSE s0
        ni   == DigitRun(s1)
        ip   == SubSeq(s1, 1, ni)
        r1   == SubSeq(s1, ni + 1, Len(s1))
        dot  == r1 # <<>> /\ Head(r1) = "."
        nf   == IF dot THEN DigitRun(Tail(r1)) ELSE 0
        fp   == IF dot THEN SubSeq(r1, 2, nf + 1) ELSE <<>>
        mag  == DigitsValue(ip) * Pow10(nf) + DigitsValue(fp)
    IN  IF ni = 0 /\ nf = 0 THEN NaN
        ELSE [nan |-> FALSE,
              num |-> IF neg THEN 0 - mag ELSE mag,
              den |-> Pow10(nf)]

MathFloor_Rounds(x) ==
    IF x.nan THEN NaN
    ELSE [nan |-> FALSE, num |-> (2 * x.num + x.den) \div (2 * x.den),
          den |-> 1]

\* Math.floor: NaN stays NaN, otherwise the greatest integer <= num/den
MathFloor(x) ==
    IF x.nan THEN NaN ELSE [nan |-> FALSE, num |-> x.num \div x.den, den |-> 1]

\* s || "0" for a string s
OrZero(s) == IF s = <<>> THEN <<"0">> ELSE s

(***************************************************************************)
(* Time                                                                    *)
(***************************************************************************)
\* a top-up expires 15 minutes after its creation
TopupTtlMs == 15 * 60 * 1000
\* grace added to the expiry before an email date counts as "in the future"
GraceMs == 5 * 60 * 1000
\* SQLite's datetime() keeps whole seconds only
MsPerSec == 1000

\* datetime(t): the timestamp truncated to the second
Sec(t) == t \div MsPerSec

\* the clock instants the model samples: the start (when top-ups are
\* created) and a few around the expiry of those top-ups
Instants ==
    {0}
    \cup {TopupTtlMs + k * StepMs : k \in (0 - 1)..MaxLate}

\* the last sampled instant
Horizon == TopupTtlMs + MaxLate * StepMs

(***************************************************************************)
(* Inputs                                                                  *)
(***************************************************************************)
\* codes handed out by POST /api/topups (lower case, single spaces)
Codes == {<<"a", " ", "b">>, <<"c">>}

\* the user who asked for the top-up that got the code
OwnerOf(code) == IF code = <<"a", " ", "b">> THEN 1 ELSE 2

\* codeCandidate values passed to confirmTopupFromEmail
CandPhrases == {<<"a", " ", "b">>, <<"A", "\t", " ", "B">>, <<"x">>, <<>>}

\* amountString values passed to confirmTopupFromEmail ("" stands for every
\* falsy value: "", null, undefined)
AmountStrings ==
    {<<>>, <<"a">>, <<"0", ".", "5">>, <<"-", "3">>,
     <<"2", "5", ".", "9">>, <<"3">>}

\* email_uid values: the uid of the message in the mailbox
Uids == {1, 2}

Unknown == [kind |-> "unknown", ms |-> 0]
InvalidDate == [kind |-> "invalid", ms |-> 0]
DateAt(t) == [kind |-> "date", ms |-> t]

\* emailDate values: "Unknown", an unparseable date, or a timestamp
EmailDates ==
    {Unknown, InvalidDate}
    \cup {DateAt(TopupTtlMs + GraceMs + k * StepMs) : k \in 0..1}

\* the calls the model makes: every amount, every candidate and every email
\* date, each varied against otherwise valid arguments; overlapping calls
\* draw their arguments from RaceArgs
RaceArgs ==
    [codeCandidate : {<<"a", " ", "b">>},
     amountString : {<<"2", "5", ".", "9">>, <<"3">>},
     email_uid : Uids, emailDate : {Unknown}]

ConfirmArgs ==
    RaceArgs
    \cup [codeCandidate : {<<"a", " ", "b">>}, amountString : AmountStrings,
          email_uid : {1}, emailDate : {Unknown}]
    \cup [codeCandidate : CandPhrases, amountString : {<<"2", "5", ".", "9">>},
          email_uid : {1}, emailDate : {Unknown}]
    \cup [codeCandidate : {<<"a", " ", "b">>}, amountString : {<<"3">>},
          email_uid : {1}, emailDate : EmailDates]

NoArgs ==
    [codeCandidate |-> <<>>, amountString |-> <<>>, email_uid |-> 1,
     emailDate |-> Unknown]

(***************************************************************************)
(* State                                                                   *)
(***************************************************************************)
VARIABLES
    topups,         \* table topups: row id -> row (ids are 1..Len)
    balance_coins,  \* table users: user id -> balance_coins
    payment_logs,   \* table payment_logs: rows in insertion order
    now,            \* the wall clock, in milliseconds
    pc,             \* per process: position inside confirmTopupFromEmail
    args,           \* per process: arguments of the call in progress
    local,          \* per process: coins, matched row, log entry to write
    result,         \* per process: what the last call returned
    reader,         \* the GET /api/topups/:code handler in flight
    credits,        \* history: committed credit transactions, in order
    replay,         \* history: per process, the serial number of its call
                    \* and whether the call repeats the process's last call
    calls,          \* history: number of calls made so far
    inbox,          \* the IMAP mailbox: the message with uid k is inbox[k]
    mail_markers,   \* table mail_markers: uids of INBOX with a marker
    app_settings,   \* table app_settings: the keys the poller uses
    scan,           \* processEmails in flight: its position and locals
    trace,          \* history: what the scan passes did so far
    poller,         \* gmailPoller module state: flags and backoff delay
    loops,          \* per poll loop: its position in pollLoop/pollGmail
    polled,         \* history: cycles, waits and stop calls so far
    parserData,     \* a parsed message handed to validatePayment
    validated,      \* what validatePayment and its helpers made of it
    shown,          \* history: the last response of GET /api/topups/:code
    watch           \* history: what a scan cycle found open when it began

\* the tables and the call state of confirmTopupFromEmail
coreVars == <<topups, balance_coins, payment_logs, now, pc, args, local,
              result, reader, credits, replay, calls>>

\* the mailbox and the state of the poller
mailVars == <<inbox, mail_markers, app_settings, scan, trace>>

\* the poll loop
pollVars == <<poller, loops, polled>>

\* the validator applied to one message
fnVars == <<parserData, validated, watch>>

vars == <<coreVars, mailVars, pollVars, fnVars, shown>>

NoTopup == [id |-> 0, userId |-> 0, code |-> <<>>, status |-> "",
            expiresAt |-> 0, amount_coins |-> NULL, armed_uidnext |-> NULL]

NoReason == [kind |-> "", status |-> "", phrases |-> <<>>, at |-> 0]
Reason(k) == [NoReason EXCEPT !.kind = k]

NoLog == [email_uid |-> NULL, extracted_code |-> NULL,
          matched_topup_id |-> NULL, decision |-> "", reason |-> NoReason]

\* what a call returned; log and written record, for the properties below,
\* the entry the call handed to logPayment and whether it was inserted
NoResult == [kind |-> "none", success |-> FALSE, reason |-> NoReason,
             topupId |-> 0, userId |-> 0, coins |-> 0,
             log |-> NoLog, written |-> FALSE]

NoLocal == [coins |-> 0, topup |-> NoTopup, matchedPhrase |-> NULL,
            log |-> NoLog, ret |-> NoResult]

Failure(r) == [NoResult EXCEPT !.kind = "returned", !.reason = r]

NoReader == [pc |-> "idle", id |-> 0, status |-> "", expiresAt |-> 0,
             amount_coins |-> NULL]

\* no status response sent yet
NoResponse == [id |-> 0, status |-> "", amountCoins |-> 0]

\* the poll loops that startPoller may have started
Loops == {1, 2}

\* let backoffMs = 2000
BackoffBaseMs == 2000
\* Math.min(backoffMs * 2, 60000)
BackoffMaxMs == 60000
\* const POLL_INTERVAL = 20000
PollIntervalMs == 20000

\* history: no sleep of a poll loop yet
NoWait == [ms |-> 0, after |-> "none", streak |-> 0, backoffMs |-> 0]

\* processEmails at rest
NoScan == [pc |-> "idle", startUid |-> 0, uids |-> <<>>, i |-> 0,
           highestProcessedUid |-> 0]

\* history of the scan passes: passes counts the passes started; logged,
\* visited and advanced are the uids for which the current (or last) pass
\* logged a decision, which it looked at, and over which it advanced
\* highestProcessedUid; parsed lists the uids handed to parseEmail; due holds,
\* for the current (or last) pass, the first visits of a valid payment
\* notice whose TOPUP line is the phrase of a request that was PENDING,
\* unexpired and armed at or below the uid when the visit began
NoTrace == [passes |-> 0, logged |-> {}, visited |-> {}, parsed |-> <<>>,
            due |-> {}]

(***************************************************************************)
(* Initial states                                                          *)
(***************************************************************************)
InitCore ==
    /\ balance_coins = [u \in Users |-> 0]
    /\ payment_logs = <<>>
    /\ now = 0
    /\ pc = [w \in Procs |-> "idle"]
    /\ args = [w \in Procs |-> NoArgs]
    /\ local = [w \in Procs |-> NoLocal]
    /\ result = [w \in Procs |-> NoResult]
    /\ reader = NoReader
    /\ credits = <<>>
    /\ replay = [w \in Procs |-> [rel |-> "first", serial |-> 0]]
    /\ calls = 0

\* an empty mailbox, no marker, no watermark yet, the poller at rest
InitMail(debugMode) ==
    /\ inbox = <<>>
    /\ mail_markers = {}
    /\ app_settings = [gmail_start_uid |-> NULL,
                       gmail_debug_mode |-> debugMode]
    /\ scan = NoScan
    /\ trace = NoTrace

\* no poll loop started yet
InitPoll ==
    /\ poller = [isPolling |-> FALSE, backoffMs |-> BackoffBaseMs,
                 pollLoopStopFlag |-> FALSE, pollLoopRunning |-> FALSE]
    /\ loops = [l \in Loops |->
                   [pc |-> "none", last |-> "none", pastStop |-> FALSE]]
    /\ polled = [cycles |-> 0, streak |-> 0, wait |-> NoWait,
                 handleStopped |-> FALSE, exportStopped |-> FALSE,
                 tests |-> 0, refused |-> FALSE, handle |-> "none"]

\* no cycle watched yet (open: the pairs of a message and a request that
\* waited for each other when the cycle began; faults: the uids at which a
\* fetch or the storage failed during the cycle)
NoWatch == [open |-> {}, faults |-> {}]

\* a message without content
NoMessage ==
    [malformed |-> FALSE, amount |-> <<>>, pay_type |-> "",
     request_status |-> "", is_expired |-> "null", receipt_memo |-> <<>>,
     note_part |-> <<>>, subject |-> <<>>, emailSubject |-> <<>>,
     body |-> <<>>, date |-> Unknown]

\* nothing validated yet (previous: the phrase normalizePhrase made of
\* note_part before the text was last varied)
NoValidation ==
    [pc |-> "none",
     result |-> [valid |-> FALSE, decision |-> "", reason |-> NoReason,
                 extracted_code |-> <<>>, codeCandidate |-> <<>>,
                 code_source |-> "", amount |-> NaN],
     zone |-> [code |-> <<>>, code_source |-> ""],
     normalized |-> <<>>, previous |-> NULL]

\* no message is being validated, no status was asked for
InitFn ==
    /\ parserData = NoMessage
    /\ validated = NoValidation
    /\ shown = NoResponse
    /\ watch = NoWatch

InitRest == InitCore /\ InitMail("0") /\ InitPoll /\ InitFn

\* the database as db.js creates it: no top-up yet
Init ==
    /\ topups = <<>>
    /\ InitRest

\* a PENDING row as an INSERT made outside POST /api/topups leaves it
SeedRow(id, userId, code, amount) ==
    [id |-> id, userId |-> userId, code |-> code, status |-> "PENDING",
     expiresAt |-> TopupTtlMs, amount_coins |-> amount,
     armed_uidnext |-> Some(1)]

\* tables the schema admits (column code is UNIQUE as raw text only): the
\* empty table, one PENDING row that already carries an amount, and two
\* PENDING rows whose codes differ only in case and spacing
SeedStores ==
    {<<>>,
     <<SeedRow(1, 1, <<"a", " ", "b">>, Some(7))>>,
     <<SeedRow(1, 1, <<"a", " ", "b">>, NULL),
       SeedRow(2, 2, <<"A", " ", " ", "B">>, NULL)>>}

\* the engine started on a database that already holds such rows
InitSeeded ==
    /\ topups \in SeedStores
    /\ InitRest

(***************************************************************************)
(* TopupStore                                                              *)
(***************************************************************************)
IsActive_IgnoresStatus(row, t) == Sec(row.expiresAt) > Sec(t)

\* WHERE status = 'PENDING' AND datetime(expiresAt) > datetime(?)
IsActive(row, t) == row.status = "PENDING" /\ Sec(row.expiresAt) > Sec(t)

\* getActiveTopups: the ids of the active rows, newest first (row ids grow
\* with createdAt)
RECURSIVE ActiveFrom(_, _, _)
ActiveFrom(tps, t, i) ==
    IF i = 0 THEN <<>>
    ELSE (IF IsActive(tps[i], t) THEN <<i>> ELSE <<>>)
         \o ActiveFrom(tps, t, i - 1)

getActiveTopups(tps, t) == ActiveFrom(tps, t, Len(tps))

\* the loop of findMatchingTopupByPhrase: the active rows whose normalized
\* code equals the normalized candidate, in the order of activeTopups
RECURSIVE MatchesOf(_, _, _)
MatchesOf(tps, active, normalizedCandidate) ==
    IF active = <<>> THEN <<>>
    ELSE (IF normalizedCandidate = normalizePhrase(tps[Head(active)].code)
          THEN <<Head(active)>> ELSE <<>>)
         \o MatchesOf(tps, Tail(active), normalizedCandidate)

NoMatch(k) == [topup |-> 0, reason |-> Reason(k), matchedPhrase |-> NULL]

findMatchingTopupByPhrase_PicksFirst(tps, codeCandidate, t) ==
    LET normalizedCandidate == normalizePhrase(codeCandidate)
        activeTopups == getActiveTopups(tps, t)
        matches == MatchesOf(tps, activeTopups, normalizedCandidate)
    IN  IF codeCandidate = <<>> THEN NoMatch("no_candidate")
        ELSE IF normalizedCandidate = <<>> THEN NoMatch("empty_candidate")
        ELSE IF activeTopups = <<>> THEN NoMatch("no_active_topups")
        ELSE IF Len(matches) = 0 THEN NoMatch("no_match")
        ELSE [topup |-> matches[1],
              reason |-> [Reason("exact_match") EXCEPT
                            !.phrases = <<tps[matches[1]].code>>],
              matchedPhrase |-> Some(tps[matches[1]].code)]

\* findMatchingTopupByPhrase: no candidate, no active row, no match, exactly
\* one match, or several matches (refused)
findMatchingTopupByPhrase(tps, codeCandidate, t) ==
    LET normalizedCandidate == normalizePhrase(codeCandidate)
        activeTopups == getActiveTopups(tps, t)
        matches == MatchesOf(tps, activeTopups, normalizedCandidate)
    IN  IF codeCandidate = <<>> THEN NoMatch("no_candidate")
        ELSE IF normalizedCandidate = <<>> THEN NoMatch("empty_candidate")
        ELSE IF activeTopups = <<>> THEN NoMatch("no_active_topups")
        ELSE IF Len(matches) = 0 THEN NoMatch("no_match")
        ELSE IF Len(matches) = 1
             THEN [topup |-> matches[1],
                   reason |-> [Reason("exact_match") EXCEPT
                                 !.phrases = <<tps[matches[1]].code>>],
                   matchedPhrase |-> Some(tps[matches[1]].code)]
        ELSE [topup |-> 0,
              reason |-> [Reason("Multiple") EXCEPT
                            !.phrases = [i \in 1..Len(matches) |->
                                           tps[matches[i]].code]],
              matchedPhrase |-> NULL]

(***************************************************************************)
(* PaymentLog                                                              *)
(***************************************************************************)
\* no unique index on email_uid (mutant)
UniqueViolation_Never(logs, entry) == FALSE

\* the unique index idx_payment_logs_email_uid rejects a second row with
\* the same non-NULL email_uid
UniqueViolation(logs, entry) ==
    /\ entry.email_uid # NULL
    /\ \E i \in 1..Len(logs) : logs[i].email_uid = entry.email_uid

\* logPayment: INSERT, a UNIQUE-constraint error is swallowed
logPayment(logs, entry) ==
    IF entry.decision = "" \/ UniqueViolation(logs, entry)
    THEN logs
    ELSE Append(logs, entry)

LogEntry(a, code, id, decision, r) ==
    [email_uid |-> Some(a.email_uid), extracted_code |-> code,
     matched_topup_id |-> id, decision |-> decision, reason |-> r]

(***************************************************************************)
(* confirmTopupFromEmail, one database statement per step                  *)
(***************************************************************************)
\* how a call relates to the call the same process made just before it
ReplayOf(w, a) ==
    IF pc[w] = "done" /\ args[w] = a
    THEN (IF result[w].success THEN "afterSuccess" ELSE "afterFailure")
    ELSE "first"

\* the call: a process enters confirmTopupFromEmail with arguments a
Call(w, a) ==
    /\ pc[w] \in {"idle", "done"}
    /\ calls < MaxCalls
    \* the processes are interchangeable: the lowest-numbered free one
    \* serves the call
    /\ \A v \in Procs : v < w => pc[v] \notin {"idle", "done"}
    /\ pc' = [pc EXCEPT ![w] = "gate"]
    /\ args' = [args EXCEPT ![w] = a]
    /\ local' = [local EXCEPT ![w] = NoLocal]
    /\ result' = [result EXCEPT ![w] = NoResult]
    /\ replay' = [replay EXCEPT
                     ![w] = [rel |-> ReplayOf(w, a), serial |-> calls + 1]]
    /\ calls' = calls + 1
    /\ UNCHANGED <<topups, balance_coins, payment_logs, now, reader,
                   credits>>

\* the function returns r to its caller
Return(w, r) ==
    /\ pc' = [pc EXCEPT ![w] = "done"]
    /\ result' = [result EXCEPT ![w] = r]
    /\ local' = [local EXCEPT ![w] = NoLocal]

\* a failure path: remember the log entry, write it in the next step
FailWith(w, entry, r) ==
    /\ pc' = [pc EXCEPT ![w] = "log"]
    /\ local' = [local EXCEPT ![w].log = entry, ![w].ret = Failure(r)]
    /\ UNCHANGED result

existingLog_WrongDecision(logs, uid) ==
    \E i \in 1..Len(logs) :
        logs[i].email_uid = Some(uid) /\ logs[i].decision = "CONFIRMED"

\* SELECT ... FROM payment_logs WHERE email_uid = ? AND decision = 'ACCEPTED'
existingLog(logs, uid) ==
    \E i \in 1..Len(logs) :
        logs[i].email_uid = Some(uid) /\ logs[i].decision = "ACCEPTED"

\* Math.floor(parseFloat(amountString || "0"))
CoinsOf(amountString) == MathFloor(parseFloat(OrZero(amountString)))

InvalidCoins_AllowsZero(coins) == coins.nan \/ coins.num < 0

\* isNaN(coins) || coins <= 0
InvalidCoins(coins) == coins.nan \/ coins.num <= 0

\* idempotency gate and amount extraction
Gate(w) ==
    /\ pc[w] = "gate"
    /\ LET a == args[w]
           coins == CoinsOf(a.amountString)
       IN  IF existingLog(payment_logs, a.email_uid)
           THEN Return(w, Failure(Reason("already_processed")))
           ELSE IF InvalidCoins(coins)
           THEN FailWith(w, LogEntry(a, Some(a.codeCandidate), NULL,
                                     "REJECTED", Reason("invalid_amount")),
                         Reason("invalid_amount"))
           ELSE /\ pc' = [pc EXCEPT ![w] = "match"]
                /\ local' = [local EXCEPT ![w].coins = coins.num]
                /\ UNCHANGED result
    /\ UNCHANGED <<topups, balance_coins, payment_logs, now, args, reader,
                   credits, replay, calls>>

IncludesMultiple_AnyReason(r) == r.kind # ""

\* reason.includes("Multiple"): of the matcher's reasons only the
\* several-matches one holds the word; the candidate quoted in the
\* no-match reason is lower case
IncludesMultiple(r) == r.kind = "Multiple"

\* phrase resolution
Match(w) ==
    /\ pc[w] = "match"
    /\ LET a == args[w]
           matchResult == findMatchingTopupByPhrase(topups, a.codeCandidate, now)
       IN  IF matchResult.topup = 0
           THEN FailWith(w, LogEntry(a, matchResult.matchedPhrase, NULL,
                                     IF IncludesMultiple(matchResult.reason)
                                     THEN "REJECTED" ELSE "IGNORED",
                                     matchResult.reason),
                         matchResult.reason)
           ELSE /\ pc' = [pc EXCEPT ![w] = "check"]
                /\ local' = [local EXCEPT
                       ![w].topup = [topups[matchResult.topup] EXCEPT
                                       !.id = matchResult.topup],
                       ![w].matchedPhrase = matchResult.matchedPhrase]
                /\ UNCHANGED result
    /\ UNCHANGED <<topups, balance_coins, payment_logs, now, args, reader,
                   credits, replay, calls>>

TooFarInFuture_NoGrace(emailDate, expiresAt) ==
    emailDate.kind = "date" /\ emailDate.ms > expiresAt

\* new Date(emailDate) > expiresAt + 5 minutes
TooFarInFuture(emailDate, expiresAt) ==
    emailDate.kind = "date" /\ emailDate.ms > expiresAt + GraceMs

\* status, expiry and future-skew checks on the row read by Match; the
\* clock is read again here (line 187)
Check(w) ==
    /\ pc[w] = "check"
    /\ LET a == args[w]
           topup == local[w].topup
           entry(r) == LogEntry(a, local[w].matchedPhrase, Some(topup.id),
                                "REJECTED", r)
       IN  IF a.emailDate.kind = "invalid"
           THEN \* new Date(emailDate).toISOString() throws a RangeError
                Return(w, [NoResult EXCEPT !.kind = "threw"])
           ELSE IF topup.status # "PENDING"
           THEN FailWith(w, entry([Reason("status") EXCEPT
                                     !.status = topup.status]),
                         [Reason("status") EXCEPT !.status = topup.status])
           ELSE IF now > topup.expiresAt
           THEN FailWith(w, entry([Reason("expired") EXCEPT
                                     !.at = topup.expiresAt]),
                         [Reason("expired") EXCEPT !.at = topup.expiresAt])
           ELSE IF TooFarInFuture(a.emailDate, topup.expiresAt)
           THEN FailWith(w, entry([Reason("future") EXCEPT
                                     !.at = a.emailDate.ms]),
                         [Reason("future") EXCEPT !.at = a.emailDate.ms])
           ELSE /\ pc' = [pc EXCEPT ![w] = "txn"]
                /\ UNCHANGED <<local, result>>
    /\ UNCHANGED <<topups, balance_coins, payment_logs, now, args, reader,
                   credits, replay, calls>>

TxnFilter_IgnoresStatus(row, t) == Sec(row.expiresAt) > Sec(t)

TxnFilter_IgnoresExpiry(row, t) == row.status = "PENDING"

\* WHERE id = ? AND status = 'PENDING'
\*   AND datetime(expiresAt) > datetime('now')
TxnFilter(row, t) == row.status = "PENDING" /\ Sec(row.expiresAt) > Sec(t)

\* the transaction never throws (mutant)
TxnError_Never(tps, users, id, tSel, tUpd, fault) == ""

\* the body of db.transaction(...): "" when it runs to the end, otherwise
\* the error it throws; tSel and tUpd are the clock at the SELECT and at
\* the UPDATE of topups
TxnError(tps, users, id, tSel, tUpd, fault) ==
    IF fault = "begin" THEN "storage_fault"
    ELSE IF ~TxnFilter(tps[id], tSel) THEN "not_found_expired_or_processed"
    ELSE IF ~TxnFilter(tps[id], tUpd)
         THEN (IF tps[id].status = "CONFIRMED" THEN "already_confirmed"
               ELSE "update_failed")
    ELSE IF fault = "balance" THEN "storage_fault_balance"
    ELSE IF tps[id].userId \notin DOMAIN users THEN "balance_update_failed"
    ELSE ""

\* where a statement of the transaction may raise a storage error: nowhere,
\* at its first statement, or at UPDATE users (after UPDATE topups ran)
TxnFaults == {"none", "begin", "balance"}

\* the topups table as the transaction body left it when it threw err: the
\* errors of the balance update come after UPDATE topups has run
TxnPartial(tps, id, coins, err) ==
    IF err \in {"storage_fault_balance", "balance_update_failed"}
    THEN [tps EXCEPT ![id] = [@ EXCEPT !.status = "CONFIRMED",
                                       !.amount_coins = Some(coins)]]
    ELSE tps

Rollback_KeepsPartial(before, partial) == partial

\* db.transaction: a body that throws is rolled back
Rollback(before, partial) == before

ConfirmRow_KeepsPending(row, coins) ==
    [row EXCEPT !.amount_coins = Some(coins)]

\* UPDATE topups SET status = 'CONFIRMED', amount_coins = ?
ConfirmRow(row, coins) ==
    [row EXCEPT !.status = "CONFIRMED", !.amount_coins = Some(coins)]

\* UPDATE users SET balance_coins = balance_coins + ?
AddCoins(users, userId, coins) ==
    [users EXCEPT ![userId] = users[userId] + coins]

\* the atomic credit: the transaction commits or rolls back as a whole; a
\* storage fault (for instance SQLITE_BUSY under another writer) may abort
\* it, and the clock may move between its statements
Txn(w) ==
    /\ pc[w] = "txn"
    /\ \E fault \in TxnFaults, tUpd \in Instants :
        /\ tUpd >= now
        /\ now' = tUpd
        /\ LET a == args[w]
               topup == local[w].topup
               coins == local[w].coins
               err == TxnError(topups, balance_coins, topup.id, now, tUpd,
                               fault)
           IN  IF err = ""
               THEN /\ topups' = [topups EXCEPT
                                    ![topup.id] = ConfirmRow(@, coins)]
                    /\ balance_coins' =
                           AddCoins(balance_coins, topup.userId, coins)
                    /\ credits' = Append(credits,
                           [topupId |-> topup.id, userId |-> topup.userId,
                            coins |-> coins, args |-> a,
                            serial |-> replay[w].serial, at |-> tUpd,
                            before |-> topups[topup.id].amount_coins,
                            expiresAt |-> topups[topup.id].expiresAt])
                    /\ local' = [local EXCEPT
                           ![w].log = LogEntry(a, local[w].matchedPhrase,
                                               Some(topup.id), "ACCEPTED",
                                               Reason("confirmed")),
                           ![w].ret = [NoResult EXCEPT
                                         !.kind = "returned",
                                         !.success = TRUE,
                                         !.reason = Reason("confirmed"),
                                         !.topupId = topup.id,
                                         !.userId = topup.userId,
                                         !.coins = coins]]
               ELSE /\ local' = [local EXCEPT
                           ![w].log = LogEntry(a, local[w].matchedPhrase,
                                               Some(topup.id), "ERROR",
                                               Reason(err)),
                           ![w].ret = Failure(Reason(err))]
                    /\ topups' = Rollback(topups,
                                          TxnPartial(topups, topup.id, coins,
                                                     err))
                    /\ UNCHANGED <<balance_coins, credits>>
    /\ pc' = [pc EXCEPT ![w] = "log"]
    /\ UNCHANGED <<payment_logs, args, result, reader, replay, calls>>

\* the logPayment call that ends every path but the gate's, then the return
Log(w) ==
    /\ pc[w] = "log"
    /\ payment_logs' = logPayment(payment_logs, local[w].log)
    /\ Return(w, [local[w].ret EXCEPT
                    !.log = local[w].log,
                    !.written = ~UniqueViolation(payment_logs, local[w].log)])
    /\ UNCHANGED <<topups, balance_coins, now, args, reader, credits, replay, calls>>

(***************************************************************************)
(* The surrounding application                                             *)
(***************************************************************************)
\* time passes
Tick ==
    /\ \E t \in Instants : t > now /\ now' = t
    /\ UNCHANGED <<topups, balance_coins, payment_logs, pc, args, local,
                   result, reader, credits, replay, calls>>

\* the UIDNEXT of the mailbox: uids are handed out in order
UidNext == Len(inbox) + 1

\* no check and no constraint on the code (mutant)
CodeTaken_Never(rows, code) == FALSE

\* the SELECT before the INSERT and the UNIQUE constraint on column code:
\* a row with this very text exists
CodeTaken(rows, code) == \E i \in 1..Len(rows) : rows[i].code = code

\* POST /api/topups: a fresh code (retry on collision, column code UNIQUE),
\* status PENDING, expiry 15 minutes from now, no amount; armed is the
\* UIDNEXT read from the mailbox, or NULL when that read failed
InsertTopup(userId, code, armed) ==
    /\ now + TopupTtlMs <= Horizon
    /\ ~CodeTaken(topups, code)
    /\ topups' = Append(topups,
           [id |-> Len(topups) + 1, userId |-> userId, code |-> code,
            status |-> "PENDING", expiresAt |-> now + TopupTtlMs,
            amount_coins |-> NULL, armed_uidnext |-> armed])
    /\ UNCHANGED <<balance_coins, payment_logs, now, pc, args, local, result,
                   reader, credits, replay, calls>>

\* POST /api/topups while the table holds fewer than MaxTopups rows
CreateTopup(userId, code, armed) ==
    /\ Len(topups) < MaxTopups
    /\ InsertTopup(userId, code, armed)

\* GET /api/topups/:code, first statement: SELECT the row (a row that is
\* not PENDING is only shown, the handler ends there)
StatusSelect(id) ==
    /\ reader.pc = "idle"
    /\ id \in 1..Len(topups)
    /\ topups[id].status = "PENDING"
    /\ reader' = [pc |-> "update", id |-> id, status |-> topups[id].status,
                  expiresAt |-> topups[id].expiresAt,
                  amount_coins |-> topups[id].amount_coins]
    /\ UNCHANGED <<topups, balance_coins, payment_logs, now, pc, args, local,
                   result, credits, replay, calls>>

\* the row counts as expired from the expiry instant on (mutant)
Lapsed_AtExpiry(row, t) == row.status = "PENDING" /\ t >= row.expiresAt

\* topup.status === "PENDING" && now > expiresAt, on the row as selected
Lapsed(row, t) == row.status = "PENDING" /\ t > row.expiresAt

\* what res.json carries for the row as selected, at handler time t
StatusResponse(row, t) ==
    [id |-> row.id,
     status |-> IF Lapsed(row, t) THEN "EXPIRED" ELSE row.status,
     amountCoins |-> IF row.amount_coins = NULL THEN 0
                     ELSE row.amount_coins[1]]

\* GET /api/topups/:code, after the await: a PENDING row read past its
\* expiry is set to EXPIRED (UPDATE ... WHERE id = ?)
StatusUpdate ==
    /\ reader.pc = "update"
    /\ topups' = IF Lapsed(reader, now)
                 THEN [topups EXCEPT ![reader.id].status = "EXPIRED"]
                 ELSE topups
    /\ reader' = NoReader
    /\ UNCHANGED <<balance_coins, payment_logs, now, pc, args, local, result,
                   credits, replay, calls>>

\* GET /api/topups/:code on a row that is not PENDING: the row is shown
\* as selected and nothing is written
StatusShow(id) ==
    /\ reader.pc = "idle"
    /\ id \in 1..Len(topups)
    /\ topups[id].status # "PENDING"
    /\ UNCHANGED coreVars

\* the steps of a call in flight
Steps(w) == Gate(w) \/ Match(w) \/ Check(w) \/ Txn(w) \/ Log(w)

\* the application around the engine
Env ==
    \/ Tick
    \/ \E c \in Codes : CreateTopup(OwnerOf(c), c, Some(UidNext))
    \/ \E id \in 1..Len(topups) : StatusSelect(id)
    \/ StatusUpdate

\* the deployment of the repository: one engine process, whose calls
\* follow one another
Engine == {1}

Next ==
    \/ (\E w \in Engine, a \in ConfirmArgs : Call(w, a)) /\ UNCHANGED <<mailVars, pollVars, fnVars, shown>>
    \/ (\E w \in Engine : Steps(w)) /\ UNCHANGED <<mailVars, pollVars, fnVars, shown>>
    \/ Env /\ UNCHANGED <<mailVars, pollVars, fnVars, shown>>

Spec == Init /\ [][Next]_vars

\* the status handler with its responses recorded, beside an engine that
\* confirms the requests made
NextStatus ==
    \/ (\E id \in 1..Len(topups) : StatusSelect(id))
           /\ UNCHANGED <<mailVars, pollVars, fnVars, shown>>
    \/ StatusUpdate /\ shown' = StatusResponse(reader, now)
                    /\ UNCHANGED <<mailVars, pollVars, fnVars>>
    \/ \E id \in 1..Len(topups) :
           /\ StatusShow(id)
           /\ shown' = StatusResponse(topups[id], now)
           /\ UNCHANGED <<mailVars, pollVars, fnVars>>
    \/ (\E w \in Engine, a \in RaceArgs : Call(w, a))
           /\ UNCHANGED <<mailVars, pollVars, fnVars, shown>>
    \/ (\E w \in Engine : Steps(w))
           /\ UNCHANGED <<mailVars, pollVars, fnVars, shown>>
    \/ Tick /\ UNCHANGED <<mailVars, pollVars, fnVars, shown>>
    \/ (\E c \in Codes : CreateTopup(OwnerOf(c), c, Some(UidNext)))
           /\ UNCHANGED <<mailVars, pollVars, fnVars, shown>>

SpecStatus == Init /\ [][NextStatus]_vars

\* several requests are made, confirmed and read past their expiry
NextCreate ==
    \/ (\E c \in Codes :
           /\ Len(topups) < MaxRows
           /\ InsertTopup(OwnerOf(c), c, Some(UidNext)))
           /\ UNCHANGED <<mailVars, pollVars, fnVars, shown>>
    \/ (\E w \in Engine, a \in RaceArgs : Call(w, a))
           /\ UNCHANGED <<mailVars, pollVars, fnVars, shown>>
    \/ (\E w \in Engine : Steps(w))
           /\ UNCHANGED <<mailVars, pollVars, fnVars, shown>>
    \/ Tick /\ UNCHANGED <<mailVars, pollVars, fnVars, shown>>
    \/ (\E id \in 1..Len(topups) : StatusSelect(id))
           /\ UNCHANGED <<mailVars, pollVars, fnVars, shown>>
    \/ StatusUpdate /\ UNCHANGED <<mailVars, pollVars, fnVars, shown>>

SpecCreate == Init /\ [][NextCreate]_vars

\* the same engine on a database that already holds rows
SpecSeeded == InitSeeded /\ [][Next]_vars

\* several processes on one database file (a second instance during a
\* deploy, a manual retry): their calls overlap statement by statement
NextRace ==
    \/ (\E w \in Procs, a \in RaceArgs : Call(w, a)) /\ UNCHANGED <<mailVars, pollVars, fnVars, shown>>
    \/ (\E w \in Procs : Steps(w)) /\ UNCHANGED <<mailVars, pollVars, fnVars, shown>>
    \/ Tick /\ UNCHANGED <<mailVars, pollVars, fnVars, shown>>
    \/ (\E c \in Codes : CreateTopup(OwnerOf(c), c, Some(UidNext)))
          /\ UNCHANGED <<mailVars, pollVars, fnVars, shown>>

SpecRace == Init /\ [][NextRace]_vars

\* the call process w makes beside the status handler: each process works
\* on a message of its own
AbortArgs(w) ==
    [codeCandidate |-> <<"a", " ", "b">>, amountString |-> <<"3">>,
     email_uid |-> w, emailDate |-> Unknown]

\* overlapping calls beside the status handler: a request may be confirmed
\* by the other process or set to EXPIRED by the handler while a call is
\* between its phrase resolution and its transaction
NextAbort ==
    \/ (\E w \in Procs : Call(w, AbortArgs(w)))
           /\ UNCHANGED <<mailVars, pollVars, fnVars, shown>>
    \/ (\E w \in Procs : Steps(w))
           /\ UNCHANGED <<mailVars, pollVars, fnVars, shown>>
    \/ Env /\ UNCHANGED <<mailVars, pollVars, fnVars, shown>>

SpecAbort == Init /\ [][NextAbort]_vars

(***************************************************************************)
(* The messages and validatePayment                                        *)
(***************************************************************************)
\* a payment notice: what parseEmail makes of it (malformed: the parser
\* fails on it), its body as lines, and its envelope
PaidMail ==
    [malformed |-> FALSE, amount |-> <<"2", "5", ".", "9">>,
     pay_type |-> "sent", request_status |-> "", is_expired |-> "null",
     receipt_memo |-> <<>>, note_part |-> <<>>, subject |-> <<>>,
     emailSubject |-> <<>>,
     body |-> << <<"T", "O", "P", "U", "P", ":", " ", "A", "\t", " ", "B">> >>,
     date |-> Unknown]

\* the same notice with an amount below one coin
SmallMail == [PaidMail EXCEPT !.amount = <<"0", ".", "5">>]

\* a payment request instead of a payment
RequestMail == [PaidMail EXCEPT !.pay_type = "request"]

\* a message the parser fails on
MalformedMail == [PaidMail EXCEPT !.malformed = TRUE]

\* a notice dated past the grace period of the requests made at the start
LateMail == [PaidMail EXCEPT !.date = DateAt(TopupTtlMs + GraceMs + StepMs)]

\* the messages that arrive in the mailbox
Mails == {PaidMail, SmallMail, RequestMail, MalformedMail, LateMail}

\* match[1] of /^\s*topup\s*:\s*(.+)\s*$/i on one line, <<>> without match
TopupCapture(line) ==
    LET s == TrimStart(line)
    IN  IF Len(s) >= 5
           /\ ToLowerCase(SubSeq(s, 1, 5)) = <<"t", "o", "p", "u", "p">>
        THEN LET r == TrimStart(SubSeq(s, 6, Len(s)))
             IN  IF r # <<>> /\ r[1] = ":" THEN Tail(r) ELSE <<>>
        ELSE <<>>

\* extractTopupLine: the first matching line, normalised; <<>> stands for
\* null and for the empty string (both falsy)
extractTopupLine(emailBody) ==
    LET hits == SelectSeq(emailBody, LAMBDA l : TopupCapture(l) # <<>>)
    IN  IF hits = <<>> THEN <<>> ELSE normalizePhrase(TopupCapture(hits[1]))

\* s1 || s2 for strings
OrElse(s1, s2) == IF s1 # <<>> THEN s1 ELSE s2

\* extractPassphraseFromSafeZones: TOPUP line, then note_part, then
\* receipt_memo, then the subject
extractPassphraseFromSafeZones(m) ==
    LET topupLine == extractTopupLine(m.body)
        note == normalizePhrase(m.note_part)
        memo == normalizePhrase(m.receipt_memo)
        subj == normalizePhrase(OrElse(m.emailSubject, m.subject))
    IN  IF topupLine # <<>>
        THEN [code |-> topupLine, code_source |-> "topup_line"]
        ELSE IF note # <<>> THEN [code |-> note, code_source |-> "note_part"]
        ELSE IF memo # <<>>
        THEN [code |-> memo, code_source |-> "receipt_memo"]
        ELSE IF subj # <<>> THEN [code |-> subj, code_source |-> "subject"]
        ELSE [code |-> <<>>, code_source |-> ""]

\* only isNaN(amountNum) (mutant)
NotPositive_NaNOnly(x) == x.nan

\* isNaN(amountNum) || amountNum <= 0
NotPositive(x) == x.nan \/ x.num <= 0

\* validatePayment, rules 1 to 5 in order: decision "" when the data is
\* valid, otherwise the decision and reason it logs; amount is NaN where
\* the result carries none
validatePayment(m) ==
    LET zone == extractPassphraseFromSafeZones(m)
        invalid(decision, r) ==
            [valid |-> FALSE, decision |-> decision, reason |-> Reason(r),
             extracted_code |-> zone.code, codeCandidate |-> <<>>,
             code_source |-> "", amount |-> NaN]
    IN  IF m.pay_type # "sent" THEN invalid("REJECTED", "pay_type")
        ELSE IF m.amount = <<>> \/ Trim(m.amount) = <<>>
        THEN invalid("REJECTED", "amount_missing")
        ELSE IF NotPositive(parseFloat(m.amount))
        THEN invalid("REJECTED", "amount_invalid")
        ELSE IF m.request_status # "" /\ m.request_status # "active"
        THEN invalid("REJECTED", "request_status")
        ELSE IF m.is_expired = "true" THEN invalid("REJECTED", "expired")
        ELSE IF zone.code = <<>> THEN invalid("IGNORED", "no_passphrase")
        ELSE [valid |-> TRUE, decision |-> "", reason |-> NoReason,
              extracted_code |-> zone.code, codeCandidate |-> zone.code,
              code_source |-> zone.code_source,
              amount |-> parseFloat(m.amount)]

\* the row the poller and the validator hand to logPayment for a message
MailLog(uid, code, decision, r) ==
    [email_uid |-> Some(uid),
     extracted_code |-> IF code = <<>> THEN NULL ELSE Some(code),
     matched_topup_id |-> NULL, decision |-> decision, reason |-> r]

(***************************************************************************)
(* validatePayment on its own: one message, validated and varied           *)
(***************************************************************************)
\* parser output whose fields rules 1 to 4 look at vary, with and without
\* a passphrase in the body
RuleFacts ==
    {[PaidMail EXCEPT !.pay_type = p, !.amount = a, !.request_status = r,
                      !.is_expired = e, !.body = b] :
        p \in {"sent", "request", ""},
        a \in {<<>>, <<" ">>, <<"0">>, <<"-", "5">>, <<"x">>,
               <<"2", "5", ".", "9">>},
        r \in {"", "active", "expired"},
        e \in {"null", "true", "false"},
        b \in {<<>>, PaidMail.body}}

\* valid payments whose safe zones vary: the body, the note, the memo, the
\* parser's subject and the subject header of the message
ZoneFacts ==
    {[PaidMail EXCEPT !.body = b, !.note_part = n, !.receipt_memo = r,
                      !.subject = s, !.emailSubject = h] :
        b \in {<<>>, << <<"x">> >>, PaidMail.body},
        n \in {<<>>, <<"A", " ", "b">>},
        r \in {<<>>, <<" ">>, <<"B">>},
        s \in {<<>>, <<"C">>},
        h \in {<<>>, <<"X">>}}

Facts == RuleFacts \cup ZoneFacts

\* the other case of a letter
SwapCase(c) ==
    CASE c = "a" -> "A"
      [] c = "b" -> "B"
      [] OTHER -> ToLowerChar(c)

\* the texts that differ from t in the case of one letter, or by one
\* whitespace character more or less in a run of whitespace or at an end
Variations(t) ==
    LET n == Len(t)
        growing == {i \in 1..(n + 1) :
                       \/ i = 1
                       \/ i = n + 1
                       \/ t[i - 1] \in Whitespace
                       \/ t[i] \in Whitespace}
        shrinking == {i \in 1..n :
                         /\ t[i] \in Whitespace
                         /\ \/ i = 1
                            \/ i = n
                            \/ t[i - 1] \in Whitespace
                            \/ t[i + 1] \in Whitespace}
    IN  ({[t EXCEPT ![i] = SwapCase(t[i])] : i \in 1..n}
         \cup (IF n < MaxText
               THEN {SubSeq(t, 1, i - 1) \o <<w>> \o SubSeq(t, i, n) :
                        i \in growing, w \in Whitespace}
               ELSE {})
         \cup {SubSeq(t, 1, i - 1) \o SubSeq(t, i + 1, n) : i \in shrinking})
        \ {t}

\* the poller hands the parsed message to validatePayment (its result, the
\* zone it took the passphrase from, the normalised note)
Validate ==
    /\ validated.pc # "done"
    /\ validated' =
           [pc |-> "done",
            result |-> validatePayment(parserData),
            zone |-> extractPassphraseFromSafeZones(parserData),
            normalized |-> normalizePhrase(parserData.note_part),
            previous |-> IF validated.pc = "varied"
                         THEN Some(validated.normalized) ELSE NULL]
    /\ UNCHANGED <<parserData, coreVars, mailVars, pollVars, shown, watch>>

\* the same payment is sent again with its note written differently
Vary ==
    /\ validated.pc = "done"
    /\ \E t \in Variations(parserData.note_part) :
           parserData' = [parserData EXCEPT !.note_part = t]
    /\ validated' = [validated EXCEPT !.pc = "varied"]
    /\ UNCHANGED <<coreVars, mailVars, pollVars, shown, watch>>

NextValidate ==
    \/ Validate
    \/ Vary

InitValidate ==
    /\ topups = <<>>
    /\ InitCore
    /\ InitMail("0")
    /\ InitPoll
    /\ parserData \in Facts
    /\ validated = NoValidation
    /\ shown = NoResponse
    /\ watch = NoWatch

SpecValidate == InitValidate /\ [][NextValidate]_vars

(***************************************************************************)
(* processEmails, one message per step                                     *)
(***************************************************************************)
\* a message arrives and gets the next uid; every message leads to at most
\* one call of confirmTopupFromEmail
Arrive(m) ==
    /\ Len(inbox) < MaxCalls
    /\ inbox' = Append(inbox, [mail |-> m, seen |-> FALSE])
    /\ UNCHANGED <<mail_markers, app_settings, scan, trace>>
    /\ UNCHANGED coreVars

\* the boundary taken over the requests of every status (mutant)
MinArmed_AnyStatus(tps) ==
    LET armed == {tps[k].armed_uidnext[1] :
                     k \in {j \in 1..Len(tps) : tps[j].armed_uidnext # NULL}}
    IN  IF armed = {} THEN NULL
        ELSE Some(CHOOSE u \in armed : \A v \in armed : u <= v)

\* SELECT MIN(armed_uidnext) FROM topups
\*   WHERE status = 'PENDING' AND armed_uidnext IS NOT NULL
MinArmed(tps) ==
    LET armed == {tps[k].armed_uidnext[1] :
                     k \in {j \in 1..Len(tps) :
                               /\ tps[j].status = "PENDING"
                               /\ tps[j].armed_uidnext # NULL}}
    IN  IF armed = {} THEN NULL
        ELSE Some(CHOOSE u \in armed : \A v \in armed : u <= v)

\* the range taken as open at its lower end (mutant)
Search_AboveOnly(box, startUid, debugMode) ==
    SelectSeq([k \in 1..Len(box) |-> k],
              LAMBDA u : /\ u > startUid \/ u = Len(box)
                         /\ debugMode \/ ~box[u].seen)

\* client.search({unseen, uid: "startUid:*"}): the uids in ascending order;
\* the range n:* always holds the highest uid of the mailbox; in debug mode
\* seen messages are searched too
Search(box, startUid, debugMode) ==
    SelectSeq([k \in 1..Len(box) |-> k],
              LAMBDA u : /\ u >= startUid \/ u = Len(box)
                         /\ debugMode \/ ~box[u].seen)

\* openMailboxWithFallback: the first open stores UIDNEXT as the watermark
FirstOpen(settings, uidNext) ==
    IF settings.gmail_start_uid = NULL /\ uidNext > 0
    THEN [settings EXCEPT !.gmail_start_uid = Some(uidNext)]
    ELSE settings

\* the pass begins: open the mailbox, read the armed boundary, search
ScanStart ==
    /\ scan.pc = "idle"
    /\ trace.passes < MaxPasses
    /\ LET minArmed == MinArmed(topups)
           uids == IF minArmed = NULL THEN <<>>
                   ELSE Search(inbox, minArmed[1],
                               app_settings.gmail_debug_mode = "1")
       IN  /\ app_settings' = FirstOpen(app_settings, UidNext)
           /\ scan' = IF uids = <<>> THEN NoScan
                      ELSE [pc |-> "visit", startUid |-> minArmed[1],
                            uids |-> uids, i |-> 1,
                            highestProcessedUid |-> minArmed[1] - 1]
    /\ trace' = [trace EXCEPT !.passes = @ + 1, !.logged = {},
                              !.visited = {}, !.due = {}]
    /\ UNCHANGED <<inbox, mail_markers>>
    /\ UNCHANGED coreVars

\* the loop is at a message
AtMessage == scan.pc = "visit" /\ scan.i <= Len(scan.uids)

\* the uid the loop is at
CurrentUid == scan.uids[scan.i]

\* if (uidNum > highestProcessedUid) highestProcessedUid = uidNum
Advance(sc, uid) ==
    IF uid > sc.highestProcessedUid
    THEN [sc EXCEPT !.highestProcessedUid = uid]
    ELSE sc

\* continue: on to the next uid of the search result
Continue(sc) == [sc EXCEPT !.pc = "visit", !.i = @ + 1]

\* client.messageFlagsAdd(uid, ["\\Seen"])
FlagSeen(box, uid) == [box EXCEPT ![uid].seen = TRUE]

markProcessed_Forgets(markers, uid) == markers

\* markProcessed: INSERT INTO mail_markers, a duplicate is ignored
markProcessed(markers, uid) == markers \cup {uid}

\* no marker is ever found (mutant)
markerExists_Never(markers, uid) == FALSE

\* markerExists: SELECT uid FROM mail_markers WHERE uid = 'mailbox:uid'
markerExists(markers, uid) == uid \in markers

\* no uid counts as below the boundary (mutant)
BelowRange_Never(uid, startUid) == FALSE

\* uidNum < startUid: the search returned a uid below the boundary
BelowRange(uid, startUid) == uid < startUid

\* a uid below the boundary is passed over; a uid with a marker is passed
\* over too, but highestProcessedUid advances over it
ScanSkip ==
    /\ AtMessage
    /\ LET uid == CurrentUid
       IN  \/ /\ BelowRange(uid, scan.startUid)
              /\ scan' = Continue(scan)
              /\ UNCHANGED trace
           \/ /\ ~BelowRange(uid, scan.startUid)
              /\ markerExists(mail_markers, uid)
              /\ scan' = Continue(Advance(scan, uid))
              /\ trace' = [trace EXCEPT !.visited = @ \cup {uid}]
    /\ UNCHANGED <<inbox, mail_markers, app_settings>>
    /\ UNCHANGED coreVars

\* the message is one the pass has to process
Unmarked == AtMessage /\ ~BelowRange(CurrentUid, scan.startUid)
                      /\ ~markerExists(mail_markers, CurrentUid)

\* fetchOne returns no source: IGNORED is logged, the message is flagged
\* (errors of the flagging are swallowed) and the loop continues
ScanFetchEmpty ==
    /\ Unmarked
    /\ LET uid == CurrentUid
       IN  /\ payment_logs' = logPayment(payment_logs,
                  MailLog(uid, <<>>, "IGNORED", Reason("no_source")))
           /\ \E flagOk \in BOOLEAN :
                 inbox' = IF flagOk THEN FlagSeen(inbox, uid) ELSE inbox
           /\ scan' = Continue(scan)
           /\ trace' = [trace EXCEPT !.logged = @ \cup {uid},
                                     !.visited = @ \cup {uid}]
    /\ UNCHANGED <<mail_markers, app_settings>>
    /\ UNCHANGED <<topups, balance_coins, now, pc, args, local, result,
                   reader, credits, replay, calls>>

\* fetchOne throws: the outer catch logs ERROR, then the marker is
\* inserted and highestProcessedUid advances
ScanFetchThrows ==
    /\ Unmarked
    /\ LET uid == CurrentUid
       IN  /\ payment_logs' = logPayment(payment_logs,
                  MailLog(uid, <<>>, "ERROR", Reason("processing_error")))
           /\ mail_markers' = markProcessed(mail_markers, uid)
           /\ scan' = Continue(Advance(scan, uid))
           /\ trace' = [trace EXCEPT !.logged = @ \cup {uid},
                                     !.visited = @ \cup {uid}]
    /\ UNCHANGED <<inbox, app_settings>>
    /\ UNCHANGED <<topups, balance_coins, now, pc, args, local, result,
                   reader, credits, replay, calls>>

\* parseEmail rejects (timeout, bad output): ERROR is logged, the message
\* is flagged and the loop continues
ScanParseError ==
    /\ Unmarked
    /\ LET uid == CurrentUid
       IN  /\ inbox[uid].mail.malformed
           /\ payment_logs' = logPayment(payment_logs,
                  MailLog(uid, <<>>, "ERROR", Reason("parser_error")))
           /\ \E flagOk \in BOOLEAN :
                 inbox' = IF flagOk THEN FlagSeen(inbox, uid) ELSE inbox
           /\ scan' = Continue(scan)
           /\ trace' = [trace EXCEPT !.logged = @ \cup {uid},
                                     !.visited = @ \cup {uid},
                                     !.parsed = Append(@, uid)]
    /\ UNCHANGED <<mail_markers, app_settings>>
    /\ UNCHANGED <<topups, balance_coins, now, pc, args, local, result,
                   reader, credits, replay, calls>>

\* validatePayment finds the data invalid and logs its decision; flagging
\* and marker are one try block, then the loop continues
ScanInvalid ==
    /\ Unmarked
    /\ LET uid == CurrentUid
           m == inbox[uid].mail
           validation == validatePayment(m)
       IN  /\ ~m.malformed
           /\ ~validation.valid
           /\ payment_logs' = logPayment(payment_logs,
                  MailLog(uid, validation.extracted_code,
                          validation.decision, validation.reason))
           /\ \E flagOk \in BOOLEAN :
                 /\ inbox' = IF flagOk THEN FlagSeen(inbox, uid) ELSE inbox
                 /\ mail_markers' = IF flagOk
                                    THEN markProcessed(mail_markers, uid)
                                    ELSE mail_markers
           /\ scan' = Continue(scan)
           /\ trace' = [trace EXCEPT !.logged = @ \cup {uid},
                                     !.visited = @ \cup {uid},
                                     !.parsed = Append(@, uid)]
    /\ UNCHANGED app_settings
    /\ UNCHANGED <<topups, balance_coins, now, pc, args, local, result,
                   reader, credits, replay, calls>>

\* the requests the TOPUP line of message m names: PENDING, unexpired,
\* armed at or below uid, with the line as their phrase
NamedRequests(uid, m) ==
    {k \in 1..Len(topups) :
        /\ topups[k].status = "PENDING"
        /\ now <= topups[k].expiresAt
        /\ topups[k].armed_uidnext # NULL
        /\ topups[k].armed_uidnext[1] <= uid
        /\ normalizePhrase(topups[k].code) = extractTopupLine(m.body)}

\* history: the expectations a first visit of message uid raises, with the
\* owner's balance before the visit
DueNow(uid, m) ==
    IF \E i \in 1..Len(payment_logs) : payment_logs[i].email_uid = Some(uid)
    THEN {}
    ELSE {[uid |-> uid, mail |-> m, topupId |-> k,
           userId |-> topups[k].userId,
           before |-> balance_coins[topups[k].userId],
           matches |-> Len(MatchesOf(topups, getActiveTopups(topups, now),
                                     extractTopupLine(m.body)))] :
             k \in NamedRequests(uid, m)}

\* the data is valid: confirmTopupFromEmail is called with the candidate,
\* the parser's amount, the uid and the envelope date
ScanConfirm ==
    /\ Unmarked
    /\ LET uid == CurrentUid
           m == inbox[uid].mail
           validation == validatePayment(m)
       IN  /\ ~m.malformed
           /\ validation.valid
           /\ Call(1, [codeCandidate |-> validation.codeCandidate,
                       amountString |-> m.amount, email_uid |-> uid,
                       emailDate |-> m.date])
           /\ scan' = [scan EXCEPT !.pc = "confirm"]
           /\ trace' = [trace EXCEPT !.visited = @ \cup {uid},
                                     !.parsed = Append(@, uid),
                                     !.due = @ \cup DueNow(uid, m)]
    /\ UNCHANGED <<inbox, mail_markers, app_settings>>

\* confirmTopupFromEmail returned: flagging and marker in one try block,
\* then the marker once more and highestProcessedUid advances
ScanConfirmed ==
    /\ scan.pc = "confirm"
    /\ pc[1] = "done"
    /\ LET uid == CurrentUid
       IN  /\ \E flagOk \in BOOLEAN :
                 inbox' = IF flagOk THEN FlagSeen(inbox, uid) ELSE inbox
           /\ mail_markers' = markProcessed(mail_markers, uid)
           /\ scan' = Continue(Advance(scan, uid))
           /\ trace' = IF result[1].log.decision # ""
                       THEN [trace EXCEPT !.logged = @ \cup {uid}]
                       ELSE trace
    /\ UNCHANGED app_settings
    /\ UNCHANGED coreVars

\* setStartUid(db, highestProcessedUid + 1) when the pass advanced
EndWatermark(settings, sc) ==
    IF sc.highestProcessedUid >= sc.startUid
    THEN [settings EXCEPT !.gmail_start_uid = Some(sc.highestProcessedUid + 1)]
    ELSE settings

\* the loop is over: the watermark is stored and the pass returns
ScanEnd ==
    /\ scan.pc = "visit"
    /\ scan.i > Len(scan.uids)
    /\ app_settings' = EndWatermark(app_settings, scan)
    /\ scan' = NoScan
    /\ UNCHANGED <<inbox, mail_markers, trace>>
    /\ UNCHANGED coreVars

\* the steps of a pass
ScanSteps ==
    \/ ScanStart
    \/ ScanSkip
    \/ ScanFetchEmpty
    \/ ScanFetchThrows
    \/ ScanParseError
    \/ ScanInvalid
    \/ ScanConfirm
    \/ ScanConfirmed
    \/ ScanEnd

\* the poller on a live mailbox: messages arrive, users ask for top-ups,
\* time passes, and the passes follow one another
NextScan ==
    \/ ScanSteps /\ UNCHANGED <<pollVars, fnVars, shown>>
    \/ (\E w \in Engine : Steps(w)) /\ UNCHANGED <<mailVars, pollVars, fnVars, shown>>
    \/ (\E m \in Mails : Arrive(m)) /\ UNCHANGED <<pollVars, fnVars, shown>>
    \/ (\E c \in Codes, armed \in {NULL, Some(UidNext)} :
           CreateTopup(OwnerOf(c), c, armed)) /\ UNCHANGED <<mailVars, pollVars, fnVars, shown>>
    \/ Tick /\ UNCHANGED <<mailVars, pollVars, fnVars, shown>>

\* debug mode is a setting the administrator may have switched on
InitScan ==
    /\ topups = <<>>
    /\ InitCore
    /\ InitPoll
    /\ InitFn
    /\ \E debugMode \in {"0", "1"} : InitMail(debugMode)

SpecScan == InitScan /\ [][NextScan]_vars

\* mailboxes that hold payment notices when the poller starts
SeedInboxes ==
    LET unseen(m) == [mail |-> m, seen |-> FALSE]
    IN  {<<unseen(m)>> : m \in Mails}
        \cup {<<unseen(PaidMail), unseen(m)>> : m \in Mails}
        \cup {<<unseen(m), unseen(PaidMail)>> : m \in Mails}

\* the poller started on a database with requests and a mailbox with
\* notices: no request and no message is added while it runs
InitDeliver ==
    /\ topups \in SeedStores
    /\ InitCore
    /\ inbox \in SeedInboxes
    /\ mail_markers = {}
    /\ app_settings = [gmail_start_uid |-> NULL, gmail_debug_mode |-> "0"]
    /\ scan = NoScan
    /\ trace = NoTrace
    /\ InitPoll
    /\ InitFn

NextDeliver ==
    \/ ScanSteps /\ UNCHANGED <<pollVars, fnVars, shown>>
    \/ (\E w \in Engine : Steps(w)) /\ UNCHANGED <<mailVars, pollVars, fnVars, shown>>
    \/ Tick /\ UNCHANGED <<mailVars, pollVars, fnVars, shown>>

SpecDeliver == InitDeliver /\ [][NextDeliver]_vars

(***************************************************************************)
(* pollGmail, pollLoop, startPoller, stopPoller                            *)
(***************************************************************************)
\* Math.min
MathMin(a, b) == IF a < b THEN a ELSE b

\* one more failure: the delay doubles up to the maximum
Doubled(ms) == MathMin(ms * 2, BackoffMaxMs)

Busy_Never(p) == FALSE

\* if (isPolling) return
Busy(p) == p.isPolling

StopRequested_Never(p) == FALSE

\* while (!pollLoopStopFlag)
StopRequested(p) == p.pollLoopStopFlag

\* the poll loops startPoller has started and that have not exited
Running == {l \in Loops : loops[l].pc \notin {"none", "exited"}}

\* the loops inside a scan cycle: mailbox connect and message processing
InFlight == {l \in Loops : loops[l].pc \in {"connect", "process"}}

\* startPoller returns null at once for every test result (mutant)
TestPassed_Always(testResult) == TRUE

\* the check startPoller makes on the result of testGmailConnection
TestPassed(testResult) == testResult.success

\* startPoller: the credentials are tested once; on a failed test it returns
\* null and touches nothing, otherwise the delay and the flags are reset and
\* a poll loop starts with its initial sleep
StartPoller(l, testResult) ==
    /\ loops[l].pc = "none"
    /\ \A k \in Loops : k < l => loops[k].pc # "none"
    /\ testResult.success \/ ~polled.refused
    /\ IF TestPassed(testResult)
       THEN /\ poller' = [poller EXCEPT !.backoffMs = BackoffBaseMs,
                                        !.pollLoopStopFlag = FALSE,
                                        !.pollLoopRunning = TRUE]
            /\ loops' = [loops EXCEPT ![l].pc = "sleep"]
            /\ polled' = [polled EXCEPT
                    !.handleStopped = FALSE,
                    !.tests = @ + 1,
                    !.refused = @ \/ ~testResult.success,
                    !.handle = "stop"]
       ELSE /\ polled' = [polled EXCEPT
                    !.tests = @ + 1,
                    !.refused = @ \/ ~testResult.success,
                    !.handle = "null"]
            /\ UNCHANGED <<poller, loops>>
    /\ UNCHANGED <<coreVars, mailVars>>

\* stop() of the handle startPoller returned
HandleStop ==
    /\ Running # {}
    /\ ~polled.handleStopped
    /\ poller' = [poller EXCEPT !.pollLoopStopFlag = TRUE,
                                !.pollLoopRunning = FALSE]
    /\ polled' = [polled EXCEPT !.handleStopped = TRUE]
    /\ UNCHANGED <<loops, coreVars, mailVars>>

\* the exported stopPoller: pollerInterval and pollerClient are never set,
\* so it changes nothing
StopPoller ==
    /\ Running # {}
    /\ ~polled.exportStopped
    /\ polled' = [polled EXCEPT !.exportStopped = TRUE]
    /\ UNCHANGED <<poller, loops, coreVars, mailVars>>

\* a sleep of the loop ends: the loop is at its while condition again
\* (history: pastStop, an iteration of the loop ended after stopPoller)
PollWake(l) ==
    /\ loops[l].pc = "sleep"
    /\ loops' = [loops EXCEPT
           ![l].pc = "check",
           ![l].pastStop = polled.exportStopped /\ loops[l].last # "none"]
    /\ UNCHANGED <<poller, polled, coreVars, mailVars>>

\* the while condition is false: the loop exits
PollExit(l) ==
    /\ loops[l].pc = "check"
    /\ StopRequested(poller)
    /\ poller' = [poller EXCEPT !.pollLoopRunning = FALSE]
    /\ loops' = [loops EXCEPT ![l].pc = "exited"]
    /\ UNCHANGED <<polled, coreVars, mailVars>>

\* the loop calls pollGmail: a call made while a cycle is in flight returns
\* at once, otherwise the flag is set and the cycle begins
PollBegin(l) ==
    /\ loops[l].pc = "check"
    /\ ~StopRequested(poller)
    /\ polled.cycles < MaxPasses
    /\ IF Busy(poller)
       THEN /\ loops' = [loops EXCEPT ![l].pc = "returned",
                                      ![l].last = "skipped"]
            /\ UNCHANGED <<poller, polled>>
       ELSE /\ poller' = [poller EXCEPT !.isPolling = TRUE]
            /\ loops' = [loops EXCEPT ![l].pc = "connect"]
            /\ polled' = [polled EXCEPT !.cycles = @ + 1]
    /\ UNCHANGED <<coreVars, mailVars>>

\* catch and finally of pollGmail: the delay doubles, the flag is cleared
Failed(p) == [p EXCEPT !.backoffMs = Doubled(@), !.isPolling = FALSE]

\* a fault in a cycle ends the poll loop (mutant)
CatchFault_Crash == "exited"

\* where a fault in a cycle leaves the loop: the catch block of pollGmail
\* swallows it and the finally block logs out
CatchFault == "logout"

\* client.connect() succeeds and processEmails begins
PollConnect(l) ==
    /\ loops[l].pc = "connect"
    /\ loops' = [loops EXCEPT ![l].pc = "process"]
    /\ UNCHANGED <<poller, polled, coreVars, mailVars>>

\* client.connect() throws
PollConnectError(l) ==
    /\ loops[l].pc = "connect"
    /\ poller' = Failed(poller)
    /\ loops' = [loops EXCEPT ![l].pc = CatchFault, ![l].last = "failed"]
    /\ polled' = [polled EXCEPT !.streak = @ + 1]
    /\ UNCHANGED <<coreVars, mailVars>>

\* processEmails on a mailbox without armed request returns: the delay is
\* reset and the flag is cleared
PollProcess(l) ==
    /\ loops[l].pc = "process"
    /\ ScanStart
    /\ poller' = [poller EXCEPT !.backoffMs = BackoffBaseMs,
                                !.isPolling = FALSE]
    /\ loops' = [loops EXCEPT ![l].pc = "logout", ![l].last = "ok"]
    /\ polled' = [polled EXCEPT !.streak = 0]

\* processEmails throws (search or database error): the batch error is
\* logged without uid and rethrown to pollGmail
PollProcessError(l) ==
    /\ loops[l].pc = "process"
    /\ payment_logs' = logPayment(payment_logs,
           [NoLog EXCEPT !.decision = "ERROR", !.reason = Reason("batch")])
    /\ poller' = Failed(poller)
    /\ loops' = [loops EXCEPT ![l].pc = CatchFault, ![l].last = "failed"]
    /\ polled' = [polled EXCEPT !.streak = @ + 1]
    /\ UNCHANGED mailVars
    /\ UNCHANGED <<topups, balance_coins, now, pc, args, local, result,
                   reader, credits, replay, calls>>

\* client.logout() in the finally block, then pollGmail returns
PollLogout(l) ==
    /\ loops[l].pc = "logout"
    /\ loops' = [loops EXCEPT ![l].pc = "returned"]
    /\ UNCHANGED <<poller, polled, coreVars, mailVars>>

\* pollGmail returned (it never throws): the loop resets the delay and
\* sleeps for the normal interval
PollSleep(l) ==
    /\ loops[l].pc = "returned"
    /\ poller' = [poller EXCEPT !.backoffMs = BackoffBaseMs]
    /\ loops' = [loops EXCEPT ![l].pc = "sleep"]
    /\ polled' = [polled EXCEPT
           !.wait = [ms |-> PollIntervalMs, after |-> loops[l].last,
                     streak |-> polled.streak,
                     backoffMs |-> poller.backoffMs]]
    /\ UNCHANGED <<coreVars, mailVars>>

\* the steps of poll loop l
LoopSteps(l) ==
    \/ PollWake(l)
    \/ PollExit(l)
    \/ PollBegin(l)
    \/ PollConnect(l)
    \/ PollConnectError(l)
    \/ PollProcess(l)
    \/ PollProcessError(l)
    \/ PollLogout(l)
    \/ PollSleep(l)

NextPoll ==
    \/ (\E l \in Loops, success \in BOOLEAN :
           StartPoller(l, [success |-> success])) /\ UNCHANGED <<fnVars, shown>>
    \/ HandleStop /\ UNCHANGED <<fnVars, shown>>
    \/ StopPoller /\ UNCHANGED <<fnVars, shown>>
    \/ (\E l \in Loops : LoopSteps(l)) /\ UNCHANGED <<fnVars, shown>>

SpecPoll == Init /\ [][NextPoll]_vars

\* the event loop runs every loop step that is due
SpecPollFair ==
    SpecPoll /\ \A l \in Loops : WF_vars(LoopSteps(l) /\ UNCHANGED <<fnVars, shown>>)

(***************************************************************************)
(* Properties                                                              *)
(***************************************************************************)

\* the call of process w has returned
Done(w) == pc[w] = "done"

\* the coins credited to user u by the commits recorded so far
RECURSIVE CreditedUpTo(_, _)
CreditedUpTo(u, n) ==
    IF n = 0 THEN 0
    ELSE CreditedUpTo(u, n - 1)
         + (IF credits[n].userId = u THEN credits[n].coins ELSE 0)

SumCredits(u) == CreditedUpTo(u, Len(credits))

\* the commits made by the call with serial number n
CreditsOfCall(n) == {i \in 1..Len(credits) : credits[i].serial = n}

\* C1: whatever the interleaving of confirm calls that resolve to the same
\* request, at most one of them commits: no request is credited twice, a
\* credited request has left PENDING and carries the credited amount, and
\* every balance is exactly the sum of the single credits of its requests.
C1_SingleCreditPerRequest ==
    /\ \A i, j \in 1..Len(credits) :
          credits[i].topupId = credits[j].topupId => i = j
    /\ \A i \in 1..Len(credits) :
          /\ topups[credits[i].topupId].status # "PENDING"
          /\ topups[credits[i].topupId].amount_coins = Some(credits[i].coins)
          /\ topups[credits[i].topupId].userId = credits[i].userId
    /\ \A u \in Users : balance_coins[u] = SumCredits(u)

\* two overlapping calls resolved to the same unexpired request; one
\* committed, the other found the request no longer PENDING
C1_Witness ==
    \E w, v \in Procs :
        /\ w # v /\ Done(w) /\ Done(v)
        /\ result[w].success /\ ~result[v].success
        /\ result[v].reason.kind \in {"not_found_expired_or_processed",
                                      "already_confirmed"}
        /\ Len(credits) = 1
        /\ topups[result[w].topupId].status = "CONFIRMED"
        /\ now < topups[result[w].topupId].expiresAt - MsPerSec
        /\ balance_coins[result[w].userId] = result[w].coins

\* C2 as stated: a call repeated with identical arguments never credits a
\* second time, and the repeated call returns success = false whatever the
\* first call returned.
C2_RepeatAlwaysFails ==
    /\ \A i, j \in 1..Len(credits) :
          credits[i].args = credits[j].args => i = j
    /\ \A w \in Procs :
          Done(w) /\ replay[w].rel # "first" => ~result[w].success

\* C2 amended: identical arguments credit at most once, and the repeated
\* call returns success = false when the first call succeeded.
C2_RepeatAfterSuccessFails ==
    /\ \A i, j \in 1..Len(credits) :
          credits[i].args = credits[j].args => i = j
    /\ \A w \in Procs :
          Done(w) /\ replay[w].rel = "afterSuccess" =>
              /\ ~result[w].success
              /\ CreditsOfCall(replay[w].serial) = {}

\* a call repeated after its success was stopped by the gate
C2_Witness ==
    \E w \in Procs :
        /\ Done(w) /\ replay[w].rel = "afterSuccess"
        /\ result[w].reason.kind = "already_processed"
        /\ Len(credits) = 1 /\ credits[1].args = args[w]

\* the log holds an ACCEPTED entry for message uid
AcceptedFor(uid) ==
    \E i \in 1..Len(payment_logs) :
        /\ payment_logs[i].email_uid = Some(uid)
        /\ payment_logs[i].decision = "ACCEPTED"

\* C3: when the log holds an ACCEPTED entry for the message, the call ends
\* at the gate: it returns failure "already processed" and leaves every
\* request, every balance and the log as they were, whatever the phrase,
\* amount or date it was given.
C3_AcceptedMessageTouchesNothing ==
    [][\A w \in Procs :
          (pc[w] = "gate" /\ pc'[w] # "gate"
              /\ AcceptedFor(args[w].email_uid)) =>
              /\ pc'[w] = "done"
              /\ result'[w] = Failure(Reason("already_processed"))
              /\ topups' = topups
              /\ balance_coins' = balance_coins
              /\ payment_logs' = payment_logs
              /\ credits' = credits]_vars

\* a message already ACCEPTED came again with an unusable amount and was
\* answered "already processed"
C3_Witness ==
    \E w \in Procs :
        /\ Done(w) /\ result[w].reason.kind = "already_processed"
        /\ AcceptedFor(args[w].email_uid)
        /\ parseFloat(OrZero(args[w].amountString)).nan
        /\ ~result[w].written

UnusableAmount(amountString) ==
    LET v == parseFloat(OrZero(amountString))
    IN  v.nan \/ v.num < v.den

\* C5: a call that passes the gate with an amount that is missing, not a
\* number, or floors to zero or less (so also 0 < x < 1) returns failure,
\* hands a REJECTED entry to the log and changes no request and no balance,
\* even when its phrase matches a PENDING, unexpired request.
C5_InvalidAmountRejected ==
    \A w \in Procs :
        (/\ Done(w)
         /\ UnusableAmount(args[w].amountString)
         /\ result[w].reason.kind # "already_processed") =>
            /\ result[w].kind = "returned" /\ ~result[w].success
            /\ result[w].reason.kind = "invalid_amount"
            /\ result[w].log.decision = "REJECTED"
            /\ result[w].log.email_uid = Some(args[w].email_uid)
            /\ result[w].written =>
                  \E i \in 1..Len(payment_logs) :
                      payment_logs[i] = result[w].log
            /\ CreditsOfCall(replay[w].serial) = {}

\* "0.5" was rejected although its phrase matches a PENDING request that
\* has not expired
C5_Witness ==
    \E w \in Procs :
        /\ Done(w) /\ result[w].reason.kind = "invalid_amount"
        /\ args[w].amountString = <<"0", ".", "5">>
        /\ result[w].written
        /\ \E i \in 1..Len(topups) :
              /\ normalizePhrase(topups[i].code)
                     = normalizePhrase(args[w].codeCandidate)
              /\ topups[i].status = "PENDING"
              /\ now < topups[i].expiresAt - MsPerSec
        /\ \A u \in Users : balance_coins[u] = 0

\* the PENDING rows whose expiry second lies after t and whose phrase has
\* the normal form of candidate
ActiveMatching(candidate, t) ==
    {i \in 1..Len(topups) :
        /\ topups[i].status = "PENDING"
        /\ topups[i].expiresAt \div 1000 > t \div 1000
        /\ normalizePhrase(topups[i].code) = normalizePhrase(candidate)}

\* the phrase resolution step of process w
MatchStep(w) == pc[w] = "match" /\ pc'[w] # "match"

\* C6: when two or more active requests have the normal form of the
\* candidate, none is picked: the call fails, the entry handed to the log
\* is REJECTED with a reason that lists every colliding phrase, and no
\* request and no balance changes.
C6_AmbiguousPhraseRejected ==
    [][\A w \in Procs :
          (MatchStep(w)
              /\ Cardinality(ActiveMatching(args[w].codeCandidate, now))
                     >= 2) =>
              /\ pc'[w] = "log"
              /\ ~local'[w].ret.success
              /\ local'[w].log.decision = "REJECTED"
              /\ {local'[w].log.reason.phrases[k] :
                     k \in 1..Len(local'[w].log.reason.phrases)}
                   = {topups[i].code :
                        i \in ActiveMatching(args[w].codeCandidate, now)}
              /\ topups' = topups
              /\ balance_coins' = balance_coins
              /\ credits' = credits]_vars

\* a candidate that two PENDING requests normalise to was refused and
\* logged as REJECTED with both phrases
C6_Witness ==
    \E w \in Procs :
        /\ Done(w) /\ ~result[w].success
        /\ result[w].reason.kind = "Multiple"
        /\ Len(result[w].reason.phrases) = 2
        /\ result[w].written
        /\ \E i \in 1..Len(payment_logs) :
              /\ payment_logs[i].email_uid = Some(args[w].email_uid)
              /\ payment_logs[i].decision = "REJECTED"
        /\ credits = <<>>

\* C7: when no active request has the normal form of the candidate, the
\* call fails, the entry handed to the log is IGNORED and no request and
\* no balance changes.
C7_NoMatchIgnored ==
    [][\A w \in Procs :
          (MatchStep(w)
              /\ ActiveMatching(args[w].codeCandidate, now) = {}) =>
              /\ pc'[w] = "log"
              /\ ~local'[w].ret.success
              /\ local'[w].log.decision = "IGNORED"
              /\ local'[w].log.matched_topup_id = NULL
              /\ topups' = topups
              /\ balance_coins' = balance_coins
              /\ credits' = credits]_vars

\* a candidate that matches none of the active requests was logged IGNORED
C7_Witness ==
    \E w \in Procs :
        /\ Done(w) /\ ~result[w].success
        /\ result[w].reason.kind = "no_match"
        /\ result[w].written
        /\ \E i \in 1..Len(payment_logs) :
              /\ payment_logs[i].email_uid = Some(args[w].email_uid)
              /\ payment_logs[i].decision = "IGNORED"
        /\ \E i \in 1..Len(topups) :
              topups[i].status = "PENDING" /\ now < topups[i].expiresAt - MsPerSec
        /\ credits = <<>>

\* the rows with the normal form of candidate that are not PENDING or
\* whose expiry lies before t
StaleMatching(candidate, t) ==
    {i \in 1..Len(topups) :
        /\ normalizePhrase(topups[i].code) = normalizePhrase(candidate)
        /\ topups[i].status # "PENDING" \/ t > topups[i].expiresAt}

\* the status, expiry and future-skew step of process w
CheckStep(w) == pc[w] = "check" /\ pc'[w] # "check"

\* C8 as stated: a candidate that equals the phrase of a request that is
\* not PENDING, or is PENDING with its expiry passed, ends in a REJECTED
\* log entry whose reason names the status or the expiry.
C8_InactiveMatchRejected ==
    [][\A w \in Procs :
          (MatchStep(w)
              /\ StaleMatching(args[w].codeCandidate, now) # {}
              /\ ActiveMatching(args[w].codeCandidate, now) = {}) =>
              /\ pc'[w] \in {"check", "log"}
              /\ pc'[w] = "log" =>
                    /\ local'[w].log.decision = "REJECTED"
                    /\ local'[w].log.reason.kind \in {"status", "expired"}]_vars

\* C8 amended: such a request is not among the active requests, so the
\* call fails at phrase resolution with an IGNORED entry that names no
\* request; REJECTED naming the expiry is produced only for a request that
\* was active at resolution and whose expiry lies before the clock read by
\* the expiry check. Neither changes a request or a balance.
C8_InactiveMatchIgnored ==
    [][\A w \in Procs :
          /\ (MatchStep(w)
                /\ StaleMatching(args[w].codeCandidate, now) # {}
                /\ ActiveMatching(args[w].codeCandidate, now) = {}) =>
                /\ pc'[w] = "log"
                /\ ~local'[w].ret.success
                /\ local'[w].log.decision = "IGNORED"
                /\ local'[w].log.reason.kind
                       \in {"no_active_topups", "no_match"}
                /\ local'[w].log.matched_topup_id = NULL
                /\ topups' = topups /\ balance_coins' = balance_coins
          /\ (CheckStep(w) /\ pc'[w] = "log"
                /\ local'[w].log.reason.kind \in {"status", "expired"}) =>
                /\ local'[w].log.decision = "REJECTED"
                /\ local'[w].log.reason.kind = "expired"
                /\ local'[w].log.reason.at = local[w].topup.expiresAt
                /\ now > local[w].topup.expiresAt
                /\ ~local'[w].ret.success
                /\ topups' = topups /\ balance_coins' = balance_coins]_vars

\* a second message naming the phrase of a request that an earlier call
\* had confirmed was logged IGNORED
C8_Witness ==
    \E w \in Procs :
        /\ \A v \in Procs \ {w} : pc[v] = "idle"
        /\ Done(w) /\ ~result[w].success
        /\ Len(credits) = 1 /\ credits[1].serial < replay[w].serial
        /\ topups[credits[1].topupId].status = "CONFIRMED"
        /\ normalizePhrase(topups[credits[1].topupId].code)
               = normalizePhrase(args[w].codeCandidate)
        /\ result[w].log.decision = "IGNORED"
        /\ result[w].written

\* C9: no request is credited, and none becomes CONFIRMED, at a time at or
\* after its expiry: every commit happened strictly before the expiry of
\* its request, and a CONFIRMED request has such a commit.
C9_NoCreditAtOrAfterExpiry ==
    /\ \A i \in 1..Len(credits) :
          /\ credits[i].at < credits[i].expiresAt
          /\ credits[i].expiresAt = topups[credits[i].topupId].expiresAt
    /\ \A k \in 1..Len(topups) :
          topups[k].status = "CONFIRMED" =>
              \E i \in 1..Len(credits) : credits[i].topupId = k

\* the clock passed the expiry after the checks; the transaction refused
\* and the request stayed uncredited
C9_Witness ==
    \E w \in Procs :
        /\ Done(w) /\ ~result[w].success
        /\ result[w].reason.kind
               \in {"not_found_expired_or_processed", "update_failed"}
        /\ credits = <<>>
        /\ \A u \in Users : balance_coins[u] = 0
        /\ \E k \in 1..Len(topups) :
              /\ result[w].log.matched_topup_id = Some(k)
              /\ topups[k].status = "PENDING"
              /\ now >= topups[k].expiresAt

\* C10: for a call that reaches the future-skew check with a PENDING,
\* unexpired request of expiry T: an e-mail timestamp later than T + 5
\* minutes is REJECTED with the future-skew reason and credits nothing; a
\* timestamp of at most T + 5 minutes passes on to the credit.
C10_FutureSkewGrace ==
    /\ [][\A w \in Procs :
             (CheckStep(w)
                 /\ args[w].emailDate.kind = "date"
                 /\ local[w].topup.status = "PENDING"
                 /\ now <= local[w].topup.expiresAt) =>
                 /\ topups' = topups /\ balance_coins' = balance_coins
                 /\ credits' = credits
                 /\ IF args[w].emailDate.ms
                         > local[w].topup.expiresAt + 300000
                    THEN /\ pc'[w] = "log"
                         /\ ~local'[w].ret.success
                         /\ local'[w].log.decision = "REJECTED"
                         /\ local'[w].log.reason.kind = "future"
                    ELSE pc'[w] = "txn"]_vars
    /\ [](\A w \in Procs :
             Done(w) /\ result[w].reason.kind = "future" =>
                 /\ ~result[w].success
                 /\ CreditsOfCall(replay[w].serial) = {})

\* an e-mail dated exactly five minutes after the expiry was credited
C10_Witness ==
    \E w \in Procs :
        /\ Done(w) /\ result[w].success
        /\ args[w].emailDate.kind = "date"
        /\ args[w].emailDate.ms
               = topups[result[w].topupId].expiresAt + 300000
        /\ topups[result[w].topupId].status = "CONFIRMED"
        /\ balance_coins[result[w].userId] = result[w].coins

\* the amounts stored on the first n requests that belong to user u
RECURSIVE StoredUpTo(_, _)
StoredUpTo(u, n) ==
    IF n = 0 THEN 0
    ELSE StoredUpTo(u, n - 1)
         + (IF topups[n].userId = u /\ topups[n].amount_coins # NULL
            THEN topups[n].amount_coins[1] ELSE 0)

StoredCredits(u) == StoredUpTo(u, Len(topups))

\* C11: the credit transaction is all or nothing: a PENDING request holds
\* no credited amount, a CONFIRMED request holds one, every balance is the
\* sum of the amounts stored on the owner's requests, and a call whose
\* transaction threw has credited nothing.
C11_CreditIsAllOrNothing ==
    /\ \A k \in 1..Len(topups) :
          /\ topups[k].status = "PENDING" => topups[k].amount_coins = NULL
          /\ topups[k].status = "CONFIRMED" => topups[k].amount_coins # NULL
    /\ \A u \in Users : balance_coins[u] = StoredCredits(u)
    /\ \A w \in Procs :
          Done(w) /\ result[w].log.decision = "ERROR" =>
              /\ ~result[w].success
              /\ CreditsOfCall(replay[w].serial) = {}

\* the balance update of a transaction raised an error after the request
\* update had run: the request is still PENDING without an amount and no
\* balance moved
C11_Witness ==
    \E w \in Procs :
        /\ Done(w) /\ ~result[w].success
        /\ result[w].reason.kind = "storage_fault_balance"
        /\ result[w].log.decision = "ERROR"
        /\ \E k \in 1..Len(topups) :
              /\ result[w].log.matched_topup_id = Some(k)
              /\ topups[k].status = "PENDING"
              /\ topups[k].amount_coins = NULL
        /\ \A u \in Users : balance_coins[u] = 0

\* C12: after a scan pass ends, every message for which the pass logged a
\* decision (ACCEPTED, REJECTED, IGNORED or ERROR) has a processed marker
C12_LoggedMessagesAreMarked ==
    scan.pc = "idle" /\ trace.passes > 0 =>
        \A uid \in trace.logged :
            /\ \E i \in 1..Len(payment_logs) :
                  payment_logs[i].email_uid = Some(uid)
            /\ uid \in mail_markers

\* C13: across the scan cycles, each message is handed to the extractor
\* (parseEmail) and decided at most once
C13_ParsedAtMostOnce ==
    \A i, j \in 1..Len(trace.parsed) :
        trace.parsed[i] = trace.parsed[j] => i = j

\* the highest uid of a non-empty set of uids
MaxUid(S) == CHOOSE u \in S : \A v \in S : v <= u

\* C14: after a scan pass that visited at least one message, the stored
\* watermark is one plus the highest uid visited in the pass, whatever the
\* outcome of the visit (accepted, rejected, extractor error, already marked)
C14_WatermarkIsOnePastHighestVisited ==
    scan.pc = "idle" /\ trace.passes > 0 /\ trace.visited # {} =>
        app_settings.gmail_start_uid = Some(MaxUid(trace.visited) + 1)

\* C15: across the scan passes the stored watermark never decreases: every
\* write stores a value greater than or equal to the value stored before
C15_WatermarkNeverDecreases ==
    [][app_settings.gmail_start_uid # NULL =>
          /\ app_settings'.gmail_start_uid # NULL
          /\ app_settings'.gmail_start_uid[1] >= app_settings.gmail_start_uid[1]]_vars

\* the decision logged for message uid is ACCEPTED
LoggedAccepted(uid) ==
    \E i \in 1..Len(payment_logs) :
        /\ payment_logs[i].email_uid = Some(uid)
        /\ payment_logs[i].decision = "ACCEPTED"

\* floor(a) for the amount a of a message
FloorOf(m) == CoinsOf(m.amount).num

\* the credit for the visit d arrived: log, balance, request and marker
Delivered(d) ==
    /\ LoggedAccepted(d.uid)
    /\ balance_coins[d.userId] = d.before + FloorOf(d.mail)
    /\ topups[d.topupId].status = "CONFIRMED"
    /\ d.uid \in mail_markers

Creditable(d) ==
    /\ FloorOf(d.mail) >= 1
    /\ d.matches = 1
    /\ ~TooFarInFuture(d.mail.date, topups[d.topupId].expiresAt)
    /\ Sec(now) < Sec(topups[d.topupId].expiresAt)
    /\ ~\E i \in 1..Len(payment_logs) :
          /\ payment_logs[i].email_uid = Some(d.uid)
          /\ payment_logs[i].reason.kind \in
                {"storage_fault", "storage_fault_balance"}

BackoffAfter(n) == MathMin(BackoffBaseMs * 2 ^ (n - 1), BackoffMaxMs)

\* C17: the wait that follows a failed cycle is the backoff delay, not the
\* normal interval: 2000 ms after the first failure, doubled with each
\* further consecutive failure, at most 60000 ms; a successful cycle resets
\* the delay to the base and is followed by the normal interval
C17_BackoffAfterFailure ==
    /\ polled.wait.after = "failed" =>
           polled.wait.ms = BackoffAfter(polled.wait.streak)
    /\ polled.wait.after = "ok" =>
           /\ polled.wait.ms = PollIntervalMs
           /\ polled.wait.backoffMs = BackoffBaseMs

\* C18: at most one scan cycle (mailbox connect plus message processing)
\* is in flight at any moment; a pollGmail call made while a cycle is in
\* flight returns without connecting and without touching markers, logs,
\* requests or balances, and no cycle is queued for it
C18_OneCycleInFlight ==
    /\ [][\A l \in Loops :
             /\ loops[l].pc = "check"
             /\ loops'[l].pc # "check"
             /\ InFlight # {}
             /\ ~StopRequested(poller)
             => /\ loops'[l].pc = "returned"
                /\ InFlight' = InFlight
                /\ UNCHANGED <<mail_markers, payment_logs, topups,
                               balance_coins, app_settings, poller>>
                /\ polled'.cycles = polled.cycles]_vars
    /\ [](Cardinality(InFlight) <= 1)

\* a call of one loop returned at once while the cycle of the other loop
\* is in flight
C18_Witness ==
    \E l, k \in Loops :
        /\ loops[l].pc = "process"
        /\ loops[k].pc = "returned"
        /\ loops[k].last = "skipped"

\* C19: after stop() of the handle (and no further startPoller), a loop
\* that checks the stop flag starts no new scan cycle, and every loop
\* eventually exits; the stop itself cancels nothing, and a cycle that was
\* in flight runs to its end
C19_HandleStopIsCooperative ==
    /\ [][polled.handleStopped =>
             \A l \in Loops :
                 loops[l].pc = "check" => loops'[l].pc \in {"check", "exited"}]_vars
    /\ [][~polled.handleStopped /\ polled'.handleStopped =>
             /\ loops' = loops
             /\ poller'.isPolling = poller.isPolling]_vars
    /\ \A l \in Loops :
           (polled.handleStopped /\ l \in InFlight)
               ~> (loops[l].pc = "logout" \/ ~polled.handleStopped)
    /\ polled.handleStopped ~> (Running = {} \/ ~polled.handleStopped)

\* stop() was called during a cycle; one loop has exited already while the
\* cycle of the other is still in flight
C19_Witness ==
    /\ polled.handleStopped
    /\ \E l, k \in Loops :
          /\ loops[l].pc = "exited"
          /\ loops[k].pc = "process"

\* C20: after the exported stopPoller is called while a poll loop is
\* running, no scan cycle begins once the loop's current iteration has ended
C20_StopPollerStopsLoop ==
    [][\A l \in Loops :
          polled.exportStopped /\ loops[l].pastStop =>
              ~(loops[l].pc = "check" /\ loops'[l].pc = "connect")]_vars

\* ---- C21 ----

Started == {l \in Loops : loops[l].pc # "none"}

\* C21: a start whose credential test fails returns null, starts no poll
\* loop and changes no poller state; while no loop was started no cycle and
\* no scan pass ever ran; every start made exactly one test
C21_RefusedStartRunsNothing ==
    /\ [][~polled.refused /\ polled'.refused =>
              /\ polled'.handle = "null"
              /\ loops' = loops
              /\ poller' = poller
              /\ polled'.cycles = polled.cycles
              /\ polled'.tests = polled.tests + 1]_vars
    /\ [](Started = {} =>
              /\ polled.cycles = 0
              /\ trace.passes = 0
              /\ ~poller.isPolling
              /\ ~poller.pollLoopRunning)
    /\ [](polled.tests =
              Cardinality(Started) + (IF polled.refused THEN 1 ELSE 0))

\* a start was refused before any loop ran
C21_Witness ==
    /\ polled.refused
    /\ polled.handle = "null"
    /\ Started = {}

\* ---- C22 ----

\* C22: a fault in a cycle (connect, folder open, search or scan) never ends
\* the poll loop: the loop exits only on a stop request, a faulted cycle goes
\* on to its logout with the in-flight flag cleared, and from there the loop
\* waits and calls the next cycle unless it was stopped (or the bound on the
\* number of cycles is reached)
C22_FaultsAreCaught ==
    /\ [][\A l \in Loops :
              loops[l].pc # "exited" /\ loops'[l].pc = "exited" =>
                  StopRequested(poller) /\ loops[l].pc = "check"]_vars
    /\ [][\A l \in Loops :
              l \in InFlight /\ loops'[l] # loops[l]
                             /\ polled'.streak > polled.streak =>
                  /\ loops'[l].pc = "logout"
                  /\ loops'[l].last = "failed"
                  /\ ~poller'.isPolling]_vars
    /\ \A l \in Loops :
           (loops[l].pc = "logout" /\ loops[l].last = "failed")
               ~> \/ loops[l].pc = "connect"
                  \/ loops[l].pc = "returned" /\ loops[l].last = "skipped"
                  \/ loops[l].pc = "exited"
                  \/ loops[l].pc = "check" /\ polled.cycles = MaxPasses

\* a loop is in a further cycle after a failed one
C22_Witness ==
    \E l \in Loops : loops[l].pc = "connect" /\ loops[l].last = "failed"

\* ---- C23 ----

\* C23: validatePayment applies five rules in order (pay_type is "sent";
\* the amount is present and positive; request_status is empty or "active";
\* is_expired is not true; a passphrase can be extracted). It returns
\* valid = false with the reason of the first rule that fails, whatever the
\* later rules would say, and valid = true with the parsed amount, the
\* phrase and its source exactly when all five rules pass
C23_RulesInOrder ==
    validated.pc = "done" =>
        LET m == parserData
            r == validated.result
            present == m.amount # <<>> /\ Trim(m.amount) # <<>>
            Rule1 == m.pay_type = "sent"
            Rule2 == /\ present
                     /\ ~parseFloat(m.amount).nan
                     /\ parseFloat(m.amount).num > 0
            Rule3 == m.request_status \in {"", "active"}
            Rule4 == m.is_expired # "true"
            Rule5 == validated.zone.code # <<>>
        IN  /\ r.valid <=> Rule1 /\ Rule2 /\ Rule3 /\ Rule4 /\ Rule5
            /\ r.valid =>
                   /\ r.amount = parseFloat(m.amount)
                   /\ r.codeCandidate = validated.zone.code
                   /\ r.code_source = validated.zone.code_source
            /\ ~r.valid => r.codeCandidate = <<>> /\ r.code_source = ""
            /\ ~Rule1 => r.reason = Reason("pay_type")
            /\ Rule1 /\ ~present => r.reason = Reason("amount_missing")
            /\ Rule1 /\ present /\ ~Rule2 =>
                   r.reason = Reason("amount_invalid")
            /\ Rule1 /\ Rule2 /\ ~Rule3 =>
                   r.reason = Reason("request_status")
            /\ Rule1 /\ Rule2 /\ Rule3 /\ ~Rule4 =>
                   r.reason = Reason("expired")
            /\ Rule1 /\ Rule2 /\ Rule3 /\ Rule4 /\ ~Rule5 =>
                   r.reason = Reason("no_passphrase")

\* a message that breaks rules 3, 4 and 5 at once is rejected for rule 3
C23_Witness ==
    /\ validated.pc = "done"
    /\ parserData.pay_type = "sent"
    /\ parserData.request_status = "expired"
    /\ parserData.is_expired = "true"
    /\ validated.zone.code = <<>>
    /\ validated.result.reason = Reason("request_status")

\* ---- C24 ----

\* C24: extractPassphraseFromSafeZones returns the first candidate that is
\* not empty after normalisation, in the order TOPUP line of the body,
\* note_part, receipt_memo, subject, with the source tag of that zone, and
\* no code and no source when every zone is empty; for the last zone the
\* subject header of the message is used only when the parser supplied no
\* subject
C24_ExtractPriority ==
    validated.pc = "done" =>
        LET m == parserData
            zones == <<
                [code |-> extractTopupLine(m.body),
                 code_source |-> "topup_line"],
                [code |-> normalizePhrase(m.note_part),
                 code_source |-> "note_part"],
                [code |-> normalizePhrase(m.receipt_memo),
                 code_source |-> "receipt_memo"],
                [code |-> normalizePhrase(IF m.subject # <<>> THEN m.subject
                                          ELSE m.emailSubject),
                 code_source |-> "subject"] >>
            found == SelectSeq(zones, LAMBDA z : z.code # <<>>)
        IN  validated.zone = IF found = <<>>
                             THEN [code |-> <<>>, code_source |-> ""]
                             ELSE found[1]

\* ---- C26 ----

\* the entries of the payment log that carry the uid of entry e
LoggedFor(logs, e) ==
    {i \in 1..Len(logs) : logs[i].email_uid = e.email_uid}

\* C26: the payment log never holds two entries with the same non-null
\* email_uid; entries once written stay as they are; a logPayment call for
\* a uid that already has an entry returns to its caller and leaves the
\* log as it was, so the entry first written for the uid is kept
C26_OneLogPerMessage ==
    /\ [](\A i, j \in 1..Len(payment_logs) :
              i # j /\ payment_logs[i].email_uid # NULL =>
                  payment_logs[i].email_uid # payment_logs[j].email_uid)
    /\ [][\A i \in 1..Len(payment_logs) :
              /\ i <= Len(payment_logs')
              /\ payment_logs'[i] = payment_logs[i]]_vars
    /\ [][\A w \in Procs :
              /\ pc[w] = "log"
              /\ pc'[w] # "log"
              /\ local[w].log.email_uid # NULL
              /\ LoggedFor(payment_logs, local[w].log) # {}
              => /\ payment_logs' = payment_logs
                 /\ pc'[w] = "done"
                 /\ result'[w].kind = "returned"
                 /\ ~result'[w].written]_vars

\* a call's log write met an entry another call had written for the same
\* message, and that other entry is the one in the log
C26_Witness ==
    \E w \in Procs :
        /\ pc[w] = "done"
        /\ result[w].log.decision = "ACCEPTED"
        /\ ~result[w].written
        /\ \E i \in LoggedFor(payment_logs, result[w].log) :
               payment_logs[i].decision = "IGNORED"

\* ---- C25 ----

\* C25: two notes that differ only in the case of letters, in the length of
\* whitespace runs or in leading and trailing whitespace have the same
\* normalised phrase (previous: the phrase of the note before it was last
\* varied in one of these ways), and an empty note (an absent value is the
\* empty text here) gives the empty phrase
C25_NormalizeIgnoresCaseAndSpace ==
    validated.pc = "done" =>
        /\ validated.previous # NULL =>
               validated.previous = Some(validated.normalized)
        /\ parserData.note_part = <<>> => validated.normalized = <<>>

\* a note varied in case and in whitespace still gives the phrase "a b"
C25_Witness ==
    /\ validated.pc = "done"
    /\ validated.previous # NULL
    /\ parserData.note_part = <<"a", " ", "\t", "B">>
    /\ validated.normalized = <<"a", " ", "b">>

\* ---- C27 ----

\* C27: the status of a request changes only from PENDING to CONFIRMED or
\* from PENDING to EXPIRED: a CONFIRMED request stays CONFIRMED with the
\* amount it was credited with and an EXPIRED request never becomes
\* CONFIRMED, however the steps of confirmations and of status reads
\* interleave
C27_StatusTransitions ==
    [][\A id \in 1..Len(topups) :
          /\ topups'[id].status # topups[id].status =>
                 /\ topups[id].status = "PENDING"
                 /\ topups'[id].status \in {"CONFIRMED", "EXPIRED"}
          /\ topups[id].status = "CONFIRMED" =>
                 topups'[id].amount_coins = topups[id].amount_coins]_vars

\* ---- C28 ----

\* C28: a status read of a PENDING request whose handler runs after the
\* expiry (its clock is read when it resumes after the SELECT) answers
\* EXPIRED and stores EXPIRED on the request; a read at or before the expiry
\* answers PENDING and leaves the request as it is; a read of a CONFIRMED
\* request answers CONFIRMED with the amount credited and writes nothing
C28_StatusReadIsLazyExpiry ==
    /\ [][reader.pc = "update" /\ reader'.pc = "idle" =>
              /\ shown'.id = reader.id
              /\ now > reader.expiresAt =>
                     /\ shown'.status = "EXPIRED"
                     /\ topups'[reader.id].status = "EXPIRED"
              /\ now <= reader.expiresAt =>
                     /\ shown'.status = "PENDING"
                     /\ topups' = topups]_vars
    /\ [][shown' # shown /\ reader.pc = "idle" =>
              /\ shown'.status = topups[shown'.id].status
              /\ shown'.status # "PENDING"
              /\ shown'.status = "CONFIRMED" =>
                     /\ topups[shown'.id].amount_coins # NULL
                     /\ shown'.amountCoins > 0
                     /\ Some(shown'.amountCoins) =
                            topups[shown'.id].amount_coins
                     /\ \E k \in 1..Len(credits) :
                            /\ credits[k].topupId = shown'.id
                            /\ credits[k].coins = shown'.amountCoins
              /\ topups' = topups]_vars

\* the handler found a request PENDING past its expiry, stored EXPIRED on
\* it and answered EXPIRED
C28_Witness ==
    /\ shown.status = "EXPIRED"
    /\ shown.id \in 1..Len(topups)
    /\ topups[shown.id].status = "EXPIRED"
    /\ topups[shown.id].amount_coins = NULL
    /\ now > topups[shown.id].expiresAt

\* ---- C29 ----

\* C29: whatever requests are made, confirmed and expired, no two PENDING
\* requests have the same normalised passphrase (the codes handed out are
\* in normal form already, and no two rows carry the same code)
C29_PendingPhrasesDistinct ==
    /\ \A i, j \in 1..Len(topups) :
           /\ i # j
           /\ topups[i].status = "PENDING"
           /\ topups[j].status = "PENDING"
           => normalizePhrase(topups[i].code) # normalizePhrase(topups[j].code)
    /\ \A i \in 1..Len(topups) :
           normalizePhrase(topups[i].code) = topups[i].code

\* two requests with different codes are PENDING at once
C29_Witness ==
    /\ Len(topups) = 2
    /\ topups[1].status = "PENDING"
    /\ topups[2].status = "PENDING"
    /\ now > 0

\* ---- C30 ----

\* the transaction step of process w
TxnStep(w) == pc[w] = "txn" /\ pc'[w] # "txn"

\* C30: when the transaction finds the request it resolved no longer
\* PENDING and unexpired (another process confirmed it, the status handler
\* set it to EXPIRED, or its expiry passed), or when it commits nothing
\* because of a storage fault, the call does not throw: every table is as
\* before, the entry handed to the log has decision ERROR, and the call
\* returns failure after the log write
C30_AbortIsLoggedAsError ==
    /\ [][\A w \in Procs :
              LET row == topups[local[w].topup.id]
                  aborts == \/ row.status # "PENDING"
                            \/ Sec(row.expiresAt) <= Sec(now)
                            \/ credits' = credits
              IN  TxnStep(w) /\ aborts =>
                      /\ pc'[w] = "log"
                      /\ local'[w].ret.kind = "returned"
                      /\ ~local'[w].ret.success
                      /\ local'[w].log.decision = "ERROR"
                      /\ local'[w].log.email_uid = Some(args[w].email_uid)
                      /\ topups' = topups
                      /\ balance_coins' = balance_coins
                      /\ credits' = credits]_vars
    /\ [][\A w \in Procs :
              /\ pc[w] = "log"
              /\ pc'[w] # "log"
              /\ local[w].log.decision = "ERROR"
              => /\ pc'[w] = "done"
                 /\ result'[w].kind = "returned"
                 /\ ~result'[w].success
                 /\ result'[w].log.decision = "ERROR"
                 /\ result'[w].written =>
                        payment_logs'[Len(payment_logs')] = local[w].log]_vars

\* a call whose request the other process confirmed after the call had
\* resolved the phrase failed, and its ERROR entry is in the log
C30_Witness ==
    \E w \in Procs :
        /\ Done(w)
        /\ ~result[w].success
        /\ result[w].reason.kind = "not_found_expired_or_processed"
        /\ result[w].written
        /\ \E i \in 1..Len(payment_logs) :
               /\ payment_logs[i].decision = "ERROR"
               /\ payment_logs[i].email_uid = Some(args[w].email_uid)
               /\ payment_logs[i].matched_topup_id # NULL
               /\ topups[payment_logs[i].matched_topup_id[1]].status
                      = "CONFIRMED"

\* how often uid was handed to parseEmail
TimesParsed(uid) == Len(SelectSeq(trace.parsed, LAMBDA u : u = uid))

\* C31: a step of a pass that stands at a message whose marker exists only
\* moves on to the next uid: the message is not fetched or flagged, not
\* handed to parseEmail, validatePayment or confirmTopupFromEmail, no log
\* entry is written and no request and no balance changes; and no step
\* ever removes a marker
C31_MarkedIsSkipped ==
    /\ [][(AtMessage /\ CurrentUid \in mail_markers /\ scan' # scan)
            => /\ scan' \in {Continue(scan), Continue(Advance(scan, CurrentUid))}
               /\ trace'.parsed = trace.parsed
               /\ trace'.logged = trace.logged
               /\ UNCHANGED <<inbox, mail_markers, payment_logs, topups,
                              balance_coins, credits, calls, pc>>]_vars
    /\ [][mail_markers \subseteq mail_markers']_vars

\* the second pass has passed over a message that the first pass marked
\* when its fetch threw: still unseen, never parsed, nothing logged for it
\* in this pass
C31_Witness ==
    /\ trace.passes = 2
    /\ scan.pc = "visit"
    /\ scan.i > 1
    /\ LET uid == scan.uids[scan.i - 1]
       IN  /\ uid \in mail_markers
           /\ ~inbox[uid].seen
           /\ uid \in trace.visited
           /\ uid \notin trace.logged
           /\ TimesParsed(uid) = 0

\* no PENDING request has an armed uid recorded
NoneArmed ==
    \A k \in 1..Len(topups) :
        topups[k].status # "PENDING" \/ topups[k].armed_uidnext = NULL

\* a pass begins
PassBegins == scan.pc = "idle" /\ trace'.passes = trace.passes + 1

\* what a pass that begins with no armed PENDING request leaves alone: it
\* is over at once, no message is looked at, fetched, flagged or parsed,
\* and markers, log, requests and balances stay as they are
ShortCircuit ==
    /\ scan' = NoScan
    /\ trace'.visited = {}
    /\ trace'.parsed = trace.parsed
    /\ UNCHANGED <<inbox, mail_markers, payment_logs, topups, balance_coins,
                   credits, calls, pc>>

\* C32 as stated: a cycle without an armed PENDING request searches,
\* fetches and parses nothing and leaves markers, log, watermark, requests
\* and balances unchanged
C32_NoArmedNoChange ==
    [][(PassBegins /\ NoneArmed)
        => ShortCircuit /\ app_settings' = app_settings]_vars

\* C32 amended: the same, except that the first successful open of the
\* mailbox stores UIDNEXT as the watermark when none is stored yet; a
\* stored watermark is left alone
C32_NoArmedNoScan ==
    [][(PassBegins /\ NoneArmed)
        => /\ ShortCircuit
           /\ app_settings'.gmail_debug_mode = app_settings.gmail_debug_mode
           /\ app_settings'.gmail_start_uid =
                 (IF app_settings.gmail_start_uid = NULL
                  THEN Some(UidNext) ELSE app_settings.gmail_start_uid)]_vars

\* the second pass found every request settled and looked at nothing,
\* although an unseen message without a marker waits in the mailbox
C32_Witness ==
    /\ trace.passes = 2
    /\ scan = NoScan
    /\ trace.visited = {}
    /\ topups # <<>>
    /\ NoneArmed
    /\ \E u \in 1..Len(inbox) : ~inbox[u].seen /\ u \notin mail_markers

\* a row of the topups table armed at the given uid
ArmedRow(id, code, status, amount, armed) ==
    [id |-> id, userId |-> OwnerOf(code), code |-> code, status |-> status,
     expiresAt |-> TopupTtlMs, amount_coins |-> amount,
     armed_uidnext |-> armed]

\* tables whose requests were made at different fills of the mailbox: one
\* request made after the first message; one made before and one after it;
\* a settled request from before it and an open one after it; and an open
\* one whose read of UIDNEXT failed beside one made after the message
RangeStores ==
    {<<ArmedRow(1, <<"a", " ", "b">>, "PENDING", NULL, Some(2))>>,
     <<ArmedRow(1, <<"c">>, "PENDING", NULL, Some(1)),
       ArmedRow(2, <<"a", " ", "b">>, "PENDING", NULL, Some(2))>>,
     <<ArmedRow(1, <<"c">>, "CONFIRMED", Some(3), Some(1)),
       ArmedRow(2, <<"a", " ", "b">>, "PENDING", NULL, Some(2))>>,
     <<ArmedRow(1, <<"c">>, "PENDING", NULL, NULL),
       ArmedRow(2, <<"a", " ", "b">>, "PENDING", NULL, Some(2))>>}

\* the poller started on such a table and a mailbox with notices
InitRange ==
    /\ topups \in RangeStores
    /\ InitCore
    /\ inbox \in SeedInboxes
    /\ mail_markers = {}
    /\ app_settings = [gmail_start_uid |-> NULL, gmail_debug_mode |-> "0"]
    /\ scan = NoScan
    /\ trace = NoTrace
    /\ InitPoll
    /\ InitFn

SpecRange == InitRange /\ [][NextDeliver]_vars

\* u is the least armed uid over the PENDING requests that have one
LeastArmed(u) ==
    /\ \E k \in 1..Len(topups) : /\ topups[k].status = "PENDING"
                                  /\ topups[k].armed_uidnext = Some(u)
    /\ \A k \in 1..Len(topups) :
          (topups[k].status = "PENDING" /\ topups[k].armed_uidnext # NULL)
             => u <= topups[k].armed_uidnext[1]

\* C33: a pass that scans takes as the start of its range the least armed
\* uid over the PENDING requests that have one; a step at a uid below it
\* only moves on to the next uid (no fetch, no flag, no parse, no marker,
\* no log entry, no confirmation), and no uid the pass looks at is below it
C33_RangeStartsAtMinArmed ==
    /\ [][(PassBegins /\ scan'.pc = "visit")
            => LeastArmed(scan'.startUid)]_vars
    /\ [][(AtMessage /\ CurrentUid < scan.startUid /\ scan' # scan)
            => /\ scan' = Continue(scan)
               /\ trace' = trace
               /\ UNCHANGED <<inbox, mail_markers, app_settings,
                              payment_logs, topups, balance_coins, credits,
                              calls, pc>>]_vars
    /\ [](scan.pc # "idle" => \A u \in trace.visited : u >= scan.startUid)

\* the search returned the last message of the mailbox although it lies
\* below the range, and the pass has passed over it: a valid notice naming
\* a PENDING request, still unseen and without a marker
C33_Witness ==
    /\ scan.pc = "visit"
    /\ scan.i > 1
    /\ LET uid == scan.uids[scan.i - 1]
       IN  /\ uid < scan.startUid
           /\ ~inbox[uid].seen
           /\ uid \notin mail_markers
           /\ validatePayment(inbox[uid].mail).valid
           /\ \E k \in 1..Len(topups) :
                 /\ topups[k].status = "PENDING"
                 /\ normalizePhrase(topups[k].code)
                      = extractTopupLine(inbox[uid].mail.body)

\* C34: a step of a pass that hands the parser's data to validatePayment
\* adds exactly one entry for the message to the payment log, whether the
\* data is valid or not: REJECTED when one of rules 1 to 4 fails, IGNORED
\* when only the passphrase is missing
C34_ValidateLogsOnce ==
    [][(AtMessage /\ trace'.parsed # trace.parsed
                  /\ ~inbox[CurrentUid].mail.malformed)
        => LET validation == validatePayment(inbox[CurrentUid].mail)
           IN  /\ Len(payment_logs') = Len(payment_logs) + 1
               /\ SubSeq(payment_logs', 1, Len(payment_logs)) = payment_logs
               /\ payment_logs'[Len(payment_logs')].email_uid
                     = Some(CurrentUid)
               /\ ~validation.valid
                     => payment_logs'[Len(payment_logs')].decision
                          = validation.decision]_vars

(***************************************************************************)
(* findMatchingTopupByPhrase over varied tables                            *)
(***************************************************************************)
\* a row made at the given clock reading
RowMadeAt(id, code, status, madeAt) ==
    [id |-> id, userId |-> OwnerOf(code), code |-> code, status |-> status,
     expiresAt |-> madeAt + TopupTtlMs,
     amount_coins |-> IF status = "CONFIRMED" THEN Some(3) ELSE NULL,
     armed_uidnext |-> Some(1)]

\* tables of one or two requests: the first of any status, made on the
\* second or a fraction of a second after it; the second, if any, PENDING
\* with another code or with a code of the same normal form
MatchStores ==
    LET first == {RowMadeAt(1, <<"a", " ", "b">>, s, t) :
                     s \in {"PENDING", "CONFIRMED", "EXPIRED"},
                     t \in {0, StepMs}}
        second == {RowMadeAt(2, c, "PENDING", 0) :
                      c \in {<<"c">>, <<"A", " ", " ", "B">>}}
    IN  {<<r>> : r \in first} \cup {<<r, q>> : r \in first, q \in second}

\* the candidates the matcher is asked for
MatchArgs ==
    [codeCandidate : CandPhrases, amountString : {<<"3">>},
     email_uid : {1}, emailDate : {Unknown}]

InitMatch ==
    /\ topups \in MatchStores
    /\ InitRest

NextMatch ==
    \/ (\E w \in Engine, a \in MatchArgs : Call(w, a))
           /\ UNCHANGED <<mailVars, pollVars, fnVars, shown>>
    \/ (\E w \in Engine : Steps(w))
           /\ UNCHANGED <<mailVars, pollVars, fnVars, shown>>
    \/ Tick /\ UNCHANGED <<mailVars, pollVars, fnVars, shown>>

SpecMatch == InitMatch /\ [][NextMatch]_vars

\* the PENDING requests whose expiry lies after t and whose phrase has the
\* normal form of the candidate
Eligible(candidate, t) ==
    {i \in 1..Len(topups) :
        /\ topups[i].status = "PENDING"
        /\ t < topups[i].expiresAt
        /\ normalizePhrase(topups[i].code) = normalizePhrase(candidate)}

\* C35: the request phrase resolution returns is PENDING, unexpired and
\* has the normal form of the candidate; and when exactly one such request
\* is stored, phrase resolution returns it
C35_ExactPhraseMatch ==
    [][\A w \in Procs :
          MatchStep(w) =>
              LET such == Eligible(args[w].codeCandidate, now)
              IN  /\ pc'[w] = "check" => local'[w].topup.id \in such
                  /\ Cardinality(such) = 1
                        => /\ pc'[w] = "check"
                           /\ local'[w].topup.id \in such]_vars

\* C36: a request carries an amount exactly when it is CONFIRMED, and the
\* amount of a CONFIRMED request is a positive integer
C36_AmountIffConfirmed ==
    \A i \in 1..Len(topups) :
        /\ topups[i].amount_coins # NULL <=> topups[i].status = "CONFIRMED"
        /\ topups[i].status = "CONFIRMED"
              => /\ topups[i].amount_coins # NULL
                 /\ topups[i].amount_coins[1] \in Nat \ {0}

\* the sum of the amounts of the CONFIRMED requests of user u
ConfirmedSum(u) ==
    LET upTo[k \in 0..Len(topups)] ==
            IF k = 0 THEN 0
            ELSE upTo[k - 1]
                 + (IF /\ topups[k].userId = u
                       /\ topups[k].status = "CONFIRMED"
                       /\ topups[k].amount_coins # NULL
                    THEN topups[k].amount_coins[1] ELSE 0)
    IN  upTo[Len(topups)]

\* C37: for every user the total the engine has added to the balance is
\* the sum of the amounts of the user's CONFIRMED requests; every addition
\* is a positive integer, and a call that failed has added nothing
C37_BalanceIsConfirmedSum ==
    /\ \A u \in Users :
          /\ balance_coins[u] = SumCredits(u)
          /\ SumCredits(u) = ConfirmedSum(u)
    /\ \A i \in 1..Len(credits) : credits[i].coins \in Nat \ {0}
    /\ \A w \in Procs :
          Done(w) /\ ~result[w].success
              => CreditsOfCall(replay[w].serial) = {}

\* C38: once the calls in flight have returned, the payment log holds for
\* every CONFIRMED request an ACCEPTED entry that names the request and
\* the message that credited it
C38_ConfirmedHasAcceptedEntry ==
    (\A w \in Procs : pc[w] \in {"idle", "done"}) =>
        \A i \in 1..Len(credits) :
            topups[credits[i].topupId].status = "CONFIRMED" =>
                \E j \in 1..Len(payment_logs) :
                    /\ payment_logs[j].decision = "ACCEPTED"
                    /\ payment_logs[j].matched_topup_id
                          = Some(credits[i].topupId)
                    /\ payment_logs[j].email_uid
                          = Some(credits[i].args.email_uid)

\* C39: whatever startPoller calls and stop() calls were made, at most one
\* poll loop is running
C39_AtMostOneLoop == Cardinality(Running) <= 1

(***************************************************************************)
(* A scan cycle watched from its beginning to its end                      *)
(***************************************************************************)
\* the pairs of a message and a request that wait for each other: the
\* request PENDING and armed at or below the uid, the message unseen and
\* without marker, its data valid and its passphrase the request's phrase
OpenNow ==
    {e \in [uid : 1..Len(inbox), topupId : 1..Len(topups)] :
        LET m == inbox[e.uid].mail
            row == topups[e.topupId]
        IN  /\ row.status = "PENDING"
            /\ row.armed_uidnext # NULL
            /\ row.armed_uidnext[1] <= e.uid
            /\ ~inbox[e.uid].seen
            /\ e.uid \notin mail_markers
            /\ ~m.malformed
            /\ validatePayment(m).valid
            /\ normalizePhrase(validatePayment(m).codeCandidate)
                  = normalizePhrase(row.code)}

\* the cycle met a fault at the message it stands at
FaultHere == [watch EXCEPT !.faults = @ \cup {CurrentUid}]

\* the passes of SpecDeliver with the history of the cycle kept
NextCycle ==
    \/ /\ ScanStart
       /\ watch' = [open |-> OpenNow, faults |-> {}]
       /\ UNCHANGED <<pollVars, parserData, validated, shown>>
    \/ /\ ScanFetchEmpty \/ ScanFetchThrows
       /\ watch' = FaultHere
       /\ UNCHANGED <<pollVars, parserData, validated, shown>>
    \/ /\ ScanConfirmed
       /\ watch' = (IF result[1].reason.kind
                          \in {"storage_fault", "storage_fault_balance"}
                    THEN FaultHere ELSE watch)
       /\ UNCHANGED <<pollVars, parserData, validated, shown>>
    \/ /\ ScanSkip \/ ScanParseError \/ ScanInvalid \/ ScanConfirm
             \/ ScanEnd
       /\ UNCHANGED <<pollVars, fnVars, shown>>
    \/ (\E w \in Engine : Steps(w))
          /\ UNCHANGED <<mailVars, pollVars, fnVars, shown>>
    \/ Tick /\ UNCHANGED <<mailVars, pollVars, fnVars, shown>>

SpecCycle == InitDeliver /\ [][NextCycle]_vars

\* a cycle has run to its end without a fault
CycleDone == scan.pc = "idle" /\ trace.passes > 0 /\ watch.faults = {}

CanCredit(e) ==
    /\ FloorOf(inbox[e.uid].mail) >= 1
    /\ \A k \in 1..Len(topups) :
          normalizePhrase(topups[k].code)
              = normalizePhrase(topups[e.topupId].code) => k = e.topupId
    /\ ~TooFarInFuture(inbox[e.uid].mail.date, topups[e.topupId].expiresAt)

=============================================================================
